---- MODULE Spec2Model ----
(***************************************************************************)
(* Position ledger of the trading backend: the /api/portfolio/trade route  *)
(* (execute_trade) over the instruments, portfolio_holdings and            *)
(* transactions tables; the admin route update_assets over the first two;  *)
(* create_snapshot and get_assets_history over daily_snapshots.            *)
(*                                                                         *)
(* Quantities and prices are integers counting quanta of the Numeric(15,4) *)
(* columns (1 = 0.0001). Request quantities and prices lie on that grid;   *)
(* a computed average cost is a rational that the column rounds.           *)
(***************************************************************************)
EXTENDS Integers, Sequences, FiniteSets, TLC

VARIABLES instruments, holdings, transactions, snapshots, calls

vars == <<instruments, holdings, transactions, snapshots, calls>>

----------------------------------------------------------------------------
(* Bounds and input domains *)

MaxTx == 3

Workers == {1, 2}

Sides == {"BUY", "SELL", "HOLD"}

(* <<quantity, price>> of a request: on the grid, with the zero and the     *)
(* negative values a payload can carry                                      *)
Amounts == {<<1, 1>>, <<2, 2>>, <<1, 3>>, <<0, 1>>, <<-1, 1>>, <<1, -1>>}

required_fields == {"symbol", "market", "side", "quantity", "price"}

----------------------------------------------------------------------------
(* Rows of the three tables *)

Instrument(symbol, market) ==
    [symbol |-> symbol, market |-> market]

PortfolioHolding(instrument_id, quantity, average_cost, current_price) ==
    [instrument_id |-> instrument_id, quantity |-> quantity,
     average_cost |-> average_cost, current_price |-> current_price]

Transaction(instrument_id, side, quantity, price) ==
    [instrument_id |-> instrument_id, side |-> side,
     quantity |-> quantity, price |-> price]

NoHolding == PortfolioHolding(0, 0, 0, 0)

Abs(x) == IF x < 0 THEN -x ELSE x

(* A Numeric(15,4) column keeps the multiple of the quantum nearest to the  *)
(* float num/den it is given; on an exact tie the direction depends on the *)
(* float error and on the database, so both neighbours are outcomes.       *)
Numeric(num, den) ==
    LET n == IF den < 0 THEN -num ELSE num
        d == Abs(den)
        f == n \div d
    IN  {k \in {f, f + 1} : 2 * Abs(k * d - n) <= d}

----------------------------------------------------------------------------
(* Requests *)

Upper(side) ==
    CASE side = "buy" -> "BUY"
      [] side = "sell" -> "SELL"
      [] OTHER -> side

Request(fields, symbol, market, side, quantity, price) ==
    [fields |-> fields, symbol |-> symbol, market |-> market, side |-> side,
     quantity |-> quantity, price |-> price]

CompleteRequests ==
    {Request(required_fields, "TSM", "US", s, a[1], a[2]) : s \in Sides, a \in Amounts}
    \cup {Request(required_fields, "TSM", "US", "sell", 1, 1)}
    \cup {Request(required_fields, "TSM", "TW", s, 1, 1) : s \in {"BUY", "SELL"}}

IncompleteRequests ==
    {Request(required_fields \ {f}, "TSM", "US", "BUY", 1, 1) : f \in {"side"}}

Requests == CompleteRequests \cup IncompleteRequests

NoRequest == Request({}, "", "", "", 0, 0)

----------------------------------------------------------------------------
(* A call in flight: the request, the handler's locals and its session *)

Call(req, pc, instrument_id, new_instrument, holding, op, row, msg, status, error) ==
    [req |-> req, pc |-> pc, instrument_id |-> instrument_id,
     new_instrument |-> new_instrument, holding |-> holding, op |-> op,
     row |-> row, msg |-> msg, status |-> status, error |-> error]

Idle == Call(NoRequest, "idle", 0, FALSE, NoHolding, "none", NoHolding, "", 0, "")

Database(i, h, t) == [instruments |-> i, holdings |-> h, transactions |-> t]

Respond(c, status, error) ==
    [c EXCEPT !.pc = "done", !.status = status, !.error = error]

(* Instrument.query.filter_by(symbol=, market=).first(): id of the row, 0 for None *)
FindInstrument(instrs, symbol, market) ==
    LET ids == {i \in 1..Len(instrs) : instrs[i] = Instrument(symbol, market)}
    IN  IF ids = {} THEN 0 ELSE CHOOSE i \in ids : \A j \in ids : i <= j

(* PortfolioHolding.query.filter_by(instrument_id=).first() *)
FindHolding(hs, instrument_id) ==
    LET rows == {h \in hs : h.instrument_id = instrument_id}
    IN  IF rows = {} THEN NoHolding ELSE CHOOSE h \in rows : TRUE

----------------------------------------------------------------------------
(* execute_trade, step by step.  What the session has added or flushed and  *)
(* not committed is held in the call; the tables change only in Commit.  A *)
(* handler that returns without commit leaves its session to the end of    *)
(* the request, where it is removed and its transaction rolled back.       *)

Side(c) == Upper(c.req.side)

(* lines 116-129: required fields, locals *)
Validate(req) ==
    LET c == [Idle EXCEPT !.req = req]
    IN  IF ~(required_fields \subseteq req.fields)
        THEN Respond(c, 400, "Missing fields")
        ELSE [c EXCEPT !.pc = "select_instrument"]

(* lines 135-142: find or create the Instrument *)
SelectInstrument(db, c) ==
    LET id == FindInstrument(db.instruments, c.req.symbol, c.req.market)
    IN  IF id = 0
        THEN IF Side(c) = "SELL"
             THEN Respond(c, 400, "Cannot sell an instrument you don't own")
             ELSE [c EXCEPT !.pc = "read_holding", !.new_instrument = TRUE]
        ELSE [c EXCEPT !.pc = "read_holding", !.instrument_id = id]

NotEnoughReversed(current_qty, trade_qty) == current_qty > trade_qty

(* line 185 *)
NotEnough(current_qty, trade_qty) == current_qty < trade_qty

OpenPositionAnySide(c) ==
    {[c EXCEPT !.pc = "commit", !.op = "insert", !.msg = "Opened new position",
               !.row = PortfolioHolding(c.instrument_id, c.req.quantity,
                                        c.req.price, c.req.price)]}

OpenPositionNoCost(c) ==
    IF Upper(c.req.side) = "SELL"
    THEN {Respond(c, 400, "Position not found")}
    ELSE {[c EXCEPT !.pc = "commit", !.op = "insert", !.msg = "Opened new position",
                    !.row = PortfolioHolding(c.instrument_id, c.req.quantity,
                                             0, c.req.price)]}

(* lines 158-170: no Holding row *)
OpenPosition(c) ==
    IF Side(c) = "SELL"
    THEN {Respond(c, 400, "Position not found")}
    ELSE {[c EXCEPT !.pc = "commit", !.op = "insert", !.msg = "Opened new position",
                    !.row = PortfolioHolding(c.instrument_id, c.req.quantity,
                                             c.req.price, c.req.price)]}

AddToPositionUnweighted(c, holding) ==
    LET new_qty == holding.quantity + c.req.quantity
    IN  IF new_qty = 0
        THEN {Respond(c, 500, "ZeroDivisionError")}
        ELSE {[c EXCEPT !.pc = "commit", !.op = "update", !.msg = "Added to position",
                        !.row = PortfolioHolding(holding.instrument_id, new_qty,
                                                 new_avg_cost, c.req.price)] :
                 new_avg_cost \in Numeric(holding.average_cost + c.req.price, 2)}

(* lines 175-183: BUY against the Holding read *)
AddToPosition(c, holding) ==
    LET current_qty == holding.quantity
        current_avg_cost == holding.average_cost
        trade_qty == c.req.quantity
        trade_price == c.req.price
        total_cost == (current_qty * current_avg_cost) + (trade_qty * trade_price)
        new_qty == current_qty + trade_qty
    IN  IF new_qty = 0
        THEN {Respond(c, 500, "ZeroDivisionError")}
        ELSE {[c EXCEPT !.pc = "commit", !.op = "update", !.msg = "Added to position",
                        !.row = PortfolioHolding(holding.instrument_id, new_qty,
                                                 new_avg_cost, trade_price)] :
                 new_avg_cost \in Numeric(total_cost, new_qty)}

ReducePositionRecost(c, holding) ==
    LET new_qty == holding.quantity - c.req.quantity
    IN  IF holding.quantity < c.req.quantity
        THEN {Respond(c, 400, "Not enough quantity to sell")}
        ELSE IF new_qty = 0
        THEN {[c EXCEPT !.pc = "commit", !.op = "delete", !.msg = "Closed position"]}
        ELSE {[c EXCEPT !.pc = "commit", !.op = "update", !.msg = "Reduced position",
                        !.row = PortfolioHolding(holding.instrument_id, new_qty,
                                                 c.req.price, c.req.price)]}

ReducePositionKeepZero(c, holding) ==
    LET new_qty == holding.quantity - c.req.quantity
    IN  IF holding.quantity < c.req.quantity
        THEN {Respond(c, 400, "Not enough quantity to sell")}
        ELSE {[c EXCEPT !.pc = "commit", !.op = "update", !.msg = "Reduced position",
                        !.row = PortfolioHolding(holding.instrument_id, new_qty,
                                                 holding.average_cost, c.req.price)]}

ReducePositionStalePrice(c, holding) ==
    LET new_qty == holding.quantity - c.req.quantity
    IN  IF holding.quantity < c.req.quantity
        THEN {Respond(c, 400, "Not enough quantity to sell")}
        ELSE IF new_qty = 0
        THEN {[c EXCEPT !.pc = "commit", !.op = "delete", !.msg = "Closed position"]}
        ELSE {[c EXCEPT !.pc = "commit", !.op = "update", !.msg = "Reduced position",
                        !.row = PortfolioHolding(holding.instrument_id, new_qty,
                                                 holding.average_cost,
                                                 holding.current_price)]}

(* lines 184-195: SELL against the Holding read *)
ReducePosition(c, holding) ==
    LET current_qty == holding.quantity
        trade_qty == c.req.quantity
        trade_price == c.req.price
        new_qty == current_qty - trade_qty
    IN  IF NotEnough(current_qty, trade_qty)
        THEN {Respond(c, 400, "Not enough quantity to sell")}
        ELSE IF new_qty = 0
        THEN {[c EXCEPT !.pc = "commit", !.op = "delete", !.msg = "Closed position"]}
        ELSE {[c EXCEPT !.pc = "commit", !.op = "update", !.msg = "Reduced position",
                        !.row = PortfolioHolding(holding.instrument_id, new_qty,
                                                 holding.average_cost, trade_price)]}

(* lines 144-195: add the Transaction, read the Holding, apply the trade *)
UpdateHolding(db, c) ==
    LET holding == IF c.new_instrument THEN NoHolding
                   ELSE FindHolding(db.holdings, c.instrument_id)
        read == [c EXCEPT !.holding = holding]
    IN  IF holding = NoHolding THEN OpenPosition(read)
        ELSE IF Side(c) = "BUY" THEN AddToPosition(read, holding)
        ELSE IF Side(c) = "SELL" THEN ReducePosition(read, holding)
        ELSE {[read EXCEPT !.pc = "commit", !.op = "none"]}

(* The UPDATE of a flush sets the columns whose value differs from the one loaded *)
Flushed(current, loaded, row) ==
    PortfolioHolding(current.instrument_id,
        IF row.quantity # loaded.quantity THEN row.quantity ELSE current.quantity,
        IF row.average_cost # loaded.average_cost THEN row.average_cost ELSE current.average_cost,
        IF row.current_price # loaded.current_price THEN row.current_price ELSE current.current_price)

CommitNoUniqueInstrument(db, c) ==
    LET known == FindInstrument(db.instruments, c.req.symbol, c.req.market)
        id == IF c.new_instrument THEN Len(db.instruments) + 1 ELSE c.instrument_id
        instrs == IF c.new_instrument
                  THEN Append(db.instruments, Instrument(c.req.symbol, c.req.market))
                  ELSE db.instruments
        current == FindHolding(db.holdings, id)
        new_tx == Transaction(id, Side(c), c.req.quantity, c.req.price)
        hs == CASE c.op = "insert" -> db.holdings \cup {[c.row EXCEPT !.instrument_id = id]}
                [] c.op = "update" -> (db.holdings \ {current}) \cup {Flushed(current, c.holding, c.row)}
                [] c.op = "delete" -> db.holdings \ {current}
                [] OTHER -> db.holdings
        done == [c EXCEPT !.instrument_id = id]
    IN  IF c.op = "insert" /\ current # NoHolding
        THEN [db |-> db, call |-> Respond(c, 500, "IntegrityError instrument_id")]
        ELSE IF c.op = "update" /\ current = NoHolding
        THEN [db |-> db, call |-> Respond(c, 500, "StaleDataError")]
        ELSE [db |-> Database(instrs, hs, Append(db.transactions, new_tx)),
              call |-> IF c.msg = "" THEN Respond(done, 500, "UnboundLocalError")
                       ELSE Respond(done, 200, "")]

CommitNoUniqueHolding(db, c) ==
    LET known == FindInstrument(db.instruments, c.req.symbol, c.req.market)
        id == IF c.new_instrument THEN Len(db.instruments) + 1 ELSE c.instrument_id
        instrs == IF c.new_instrument
                  THEN Append(db.instruments, Instrument(c.req.symbol, c.req.market))
                  ELSE db.instruments
        current == FindHolding(db.holdings, id)
        new_tx == Transaction(id, Side(c), c.req.quantity, c.req.price)
        hs == CASE c.op = "insert" -> db.holdings \cup {[c.row EXCEPT !.instrument_id = id]}
                [] c.op = "update" -> (db.holdings \ {current}) \cup {Flushed(current, c.holding, c.row)}
                [] c.op = "delete" -> db.holdings \ {current}
                [] OTHER -> db.holdings
        done == [c EXCEPT !.instrument_id = id]
    IN  IF c.new_instrument /\ known # 0
        THEN [db |-> db, call |-> Respond(c, 500, "IntegrityError uq_instrument")]
        ELSE IF c.op = "update" /\ current = NoHolding
        THEN [db |-> db, call |-> Respond(c, 500, "StaleDataError")]
        ELSE [db |-> Database(instrs, hs, Append(db.transactions, new_tx)),
              call |-> IF c.msg = "" THEN Respond(done, 500, "UnboundLocalError")
                       ELSE Respond(done, 200, "")]

CommitDeleteAll(db, c) ==
    LET known == FindInstrument(db.instruments, c.req.symbol, c.req.market)
        id == IF c.new_instrument THEN Len(db.instruments) + 1 ELSE c.instrument_id
        instrs == IF c.new_instrument
                  THEN Append(db.instruments, Instrument(c.req.symbol, c.req.market))
                  ELSE db.instruments
        current == FindHolding(db.holdings, id)
        new_tx == Transaction(id, Side(c), c.req.quantity, c.req.price)
        hs == CASE c.op = "insert" -> db.holdings \cup {[c.row EXCEPT !.instrument_id = id]}
                [] c.op = "update" -> (db.holdings \ {current}) \cup {Flushed(current, c.holding, c.row)}
                [] c.op = "delete" -> {}
                [] OTHER -> db.holdings
        done == [c EXCEPT !.instrument_id = id]
    IN  IF c.new_instrument /\ known # 0
        THEN [db |-> db, call |-> Respond(c, 500, "IntegrityError uq_instrument")]
        ELSE IF c.op = "insert" /\ current # NoHolding
        THEN [db |-> db, call |-> Respond(c, 500, "IntegrityError instrument_id")]
        ELSE IF c.op = "update" /\ current = NoHolding
        THEN [db |-> db, call |-> Respond(c, 500, "StaleDataError")]
        ELSE [db |-> Database(instrs, hs, Append(db.transactions, new_tx)),
              call |-> IF c.msg = "" THEN Respond(done, 500, "UnboundLocalError")
                       ELSE Respond(done, 200, "")]

(* lines 197-209: flush, commit, build the response *)
Commit(db, c) ==
    LET known == FindInstrument(db.instruments, c.req.symbol, c.req.market)
        id == IF c.new_instrument THEN Len(db.instruments) + 1 ELSE c.instrument_id
        instrs == IF c.new_instrument
                  THEN Append(db.instruments, Instrument(c.req.symbol, c.req.market))
                  ELSE db.instruments
        current == FindHolding(db.holdings, id)
        new_tx == Transaction(id, Side(c), c.req.quantity, c.req.price)
        hs == CASE c.op = "insert" -> db.holdings \cup {[c.row EXCEPT !.instrument_id = id]}
                [] c.op = "update" -> (db.holdings \ {current}) \cup {Flushed(current, c.holding, c.row)}
                [] c.op = "delete" -> db.holdings \ {current}
                [] OTHER -> db.holdings
        done == [c EXCEPT !.instrument_id = id]
    IN  IF c.new_instrument /\ known # 0
        THEN [db |-> db, call |-> Respond(c, 500, "IntegrityError uq_instrument")]
        ELSE IF c.op = "insert" /\ current # NoHolding
        THEN [db |-> db, call |-> Respond(c, 500, "IntegrityError instrument_id")]
        ELSE IF c.op = "update" /\ current = NoHolding
        THEN [db |-> db, call |-> Respond(c, 500, "StaleDataError")]
        ELSE [db |-> Database(instrs, hs, Append(db.transactions, new_tx)),
              call |-> IF c.msg = "" THEN Respond(done, 500, "UnboundLocalError")
                       ELSE Respond(done, 200, "")]

(* The whole handler, run with no other call in between *)
execute_trade(db, req) ==
    LET c0 == Validate(req)
        c1 == SelectInstrument(db, c0)
    IN  IF c0.pc = "done" THEN {[db |-> db, call |-> c0]}
        ELSE IF c1.pc = "done" THEN {[db |-> db, call |-> c1]}
        ELSE {IF c2.pc = "done" THEN [db |-> db, call |-> c2] ELSE Commit(db, c2) :
                 c2 \in UpdateHolding(db, c1)}

----------------------------------------------------------------------------
(* Calls run one at a time *)

Committed == Database(instruments, holdings, transactions)

Init ==
    /\ instruments = <<>>
    /\ holdings = {}
    /\ transactions = <<>>
    /\ snapshots = {}
    /\ calls = [w \in Workers |-> Idle]

ExecuteTrade ==
    \E req \in Requests :
        \E out \in execute_trade(Committed, req) :
            /\ Len(out.db.transactions) <= MaxTx
            /\ instruments' = out.db.instruments
            /\ holdings' = out.db.holdings
            /\ transactions' = out.db.transactions
            /\ calls' = [calls EXCEPT ![1] = out.call]
            /\ UNCHANGED snapshots

Next == ExecuteTrade

Spec == Init /\ [][Next]_vars

----------------------------------------------------------------------------
(* Well-formed calls only, one at a time: the ledger is then a sequence of  *)
(* valid transactions.                                                      *)

MaxReplay == 4

ValidRequests ==
    {req \in CompleteRequests :
        /\ Upper(req.side) \in {"BUY", "SELL"}
        /\ req.quantity > 0
        /\ req.price >= 0}

ValidTrade ==
    \E req \in ValidRequests :
        \E out \in execute_trade(Committed, req) :
            /\ Len(out.db.transactions) <= MaxReplay
            /\ instruments' = out.db.instruments
            /\ holdings' = out.db.holdings
            /\ transactions' = out.db.transactions
            /\ calls' = [calls EXCEPT ![1] = out.call]
            /\ UNCHANGED snapshots

NextReplay == ValidTrade

SpecReplay == Init /\ [][NextReplay]_vars

----------------------------------------------------------------------------
(* Two calls at a time, one per worker.  Each statement reads the committed *)
(* tables (READ COMMITTED); each worker's writes reach them in its Commit.  *)

SeedTrades ==
    {<<>>,
     <<Request(required_fields, "TSM", "US", "BUY", 2, 2)>>,
     <<Request(required_fields, "TSM", "US", "BUY", 2, 2),
       Request(required_fields, "TSM", "US", "SELL", 2, 2)>>,
     <<Request(required_fields, "TSM", "US", "BUY", 2, 2),
       Request(required_fields, "TSM", "TW", "BUY", 1, 1)>>}

RECURSIVE Replay(_, _)
Replay(db, reqs) ==
    IF reqs = <<>> THEN {db}
    ELSE UNION {Replay(out.db, Tail(reqs)) : out \in execute_trade(db, Head(reqs))}

SeedDatabases == UNION {Replay(Database(<<>>, {}, <<>>), reqs) : reqs \in SeedTrades}

InitConc ==
    /\ \E db \in SeedDatabases :
           /\ instruments = db.instruments
           /\ holdings = db.holdings
           /\ transactions = db.transactions
    /\ snapshots = {}
    /\ calls = [w \in Workers |-> Idle]

Begin(w) ==
    /\ calls[w].pc = "idle"
    /\ \E req \in Requests : calls' = [calls EXCEPT ![w] = Validate(req)]
    /\ UNCHANGED <<instruments, holdings, transactions, snapshots>>

Select(w) ==
    /\ calls[w].pc = "select_instrument"
    /\ calls' = [calls EXCEPT ![w] = SelectInstrument(Committed, calls[w])]
    /\ UNCHANGED <<instruments, holdings, transactions, snapshots>>

Read(w) ==
    /\ calls[w].pc = "read_holding"
    /\ \E c \in UpdateHolding(Committed, calls[w]) : calls' = [calls EXCEPT ![w] = c]
    /\ UNCHANGED <<instruments, holdings, transactions, snapshots>>

CommitCall(w) ==
    /\ calls[w].pc = "commit"
    /\ LET out == Commit(Committed, calls[w])
       IN  /\ instruments' = out.db.instruments
           /\ holdings' = out.db.holdings
           /\ transactions' = out.db.transactions
           /\ calls' = [calls EXCEPT ![w] = out.call]
    /\ UNCHANGED snapshots

NextConc ==
    \E w \in Workers : Begin(w) \/ Select(w) \/ Read(w) \/ CommitCall(w)

SpecConc == InitConc /\ [][NextConc]_vars

----------------------------------------------------------------------------
(* Reads *)

(* lines 311-338: one entry per Holding row (value_twd left out) *)
get_assets_overview ==
    {[symbol |-> instruments[h.instrument_id].symbol,
      market |-> instruments[h.instrument_id].market,
      quantity |-> h.quantity,
      average_cost |-> h.average_cost,
      current_price |-> h.current_price] : h \in holdings}

----------------------------------------------------------------------------
(* daily_snapshots: create_snapshot and get_assets_history.  Dates are day  *)
(* numbers, as the database compares the date parsed from the string sent;  *)
(* amounts are integers on the grid of their column.  A nullable column     *)
(* holds <<>> for NULL and <<v>> for a value.                               *)

MaxDate == 3

Dates == 1..MaxDate

Null == <<>>

DailySnapshot(snapshot_date, total_net_worth, equity_us, equity_tw, equity_futures, cash_balance, usd_twd_rate, holdings_snapshot) ==
    [snapshot_date |-> snapshot_date, total_net_worth |-> total_net_worth,
     equity_us |-> equity_us, equity_tw |-> equity_tw,
     equity_futures |-> equity_futures, cash_balance |-> cash_balance,
     usd_twd_rate |-> usd_twd_rate, holdings_snapshot |-> holdings_snapshot]

(* The JSON body of POST /api/snapshots: the keys it carries and their values *)
SnapshotRequest(fields, snapshot_date, total_net_worth, equity_us, usd_twd_rate) ==
    [fields |-> fields, snapshot_date |-> snapshot_date,
     total_net_worth |-> total_net_worth, equity_us |-> equity_us,
     equity_tw |-> 0, equity_futures |-> 0, cash_balance |-> 1,
     usd_twd_rate |-> usd_twd_rate, holdings_snapshot |-> 1]

snapshot_fields ==
    {"snapshot_date", "total_net_worth", "equity_us", "equity_tw", "equity_futures",
     "cash_balance", "usd_twd_rate", "holdings_snapshot"}

SnapshotRequests ==
    {SnapshotRequest(snapshot_fields, d, 2, 1, 3) : d \in Dates}
    \cup {SnapshotRequest({"snapshot_date", "total_net_worth"}, d, 1, 0, 0) : d \in Dates}
    \cup {SnapshotRequest({"snapshot_date"}, 1, 0, 0, 0),
          SnapshotRequest({"total_net_worth"}, 0, 1, 0, 0)}

(* data.get(key) and data.get(key, default) *)
Get(data, key, default) == IF key \in data.fields THEN data[key] ELSE default

Nullable(data, key) == IF key \in data.fields THEN <<data[key]>> ELSE Null

SnapshotCall(req, pc, status, message, error) ==
    [req |-> req, pc |-> pc, status |-> status, message |-> message, error |-> error]

Answer(c, status, message) ==
    [c EXCEPT !.pc = "done", !.status = status, !.message = message]

CheckExistingNever(snaps, req) ==
    SnapshotCall(req, "insert", 0, "", "")

(* lines 227-231: the existence check *)
CheckExisting(snaps, req) ==
    LET c == SnapshotCall(req, "insert", 0, "", "")
        existing == {s \in snaps : /\ "snapshot_date" \in req.fields
                                  /\ s.snapshot_date = req.snapshot_date}
    IN  IF existing # {} THEN Answer(c, 409, "Snapshot already exists") ELSE c

(* lines 233-248: the INSERT and its commit; snapshot_date and              *)
(* total_net_worth are NOT NULL and snapshot_date is unique                 *)
InsertSnapshot(snaps, c) ==
    LET snapshot == DailySnapshot(c.req.snapshot_date, c.req.total_net_worth,
                                  Get(c.req, "equity_us", 0), Get(c.req, "equity_tw", 0),
                                  Get(c.req, "equity_futures", 0),
                                  Get(c.req, "cash_balance", 0),
                                  Nullable(c.req, "usd_twd_rate"),
                                  Nullable(c.req, "holdings_snapshot"))
    IN  IF ~({"snapshot_date", "total_net_worth"} \subseteq c.req.fields)
        THEN [snapshots |-> snaps, call |-> Respond(c, 500, "IntegrityError NOT NULL")]
        ELSE IF \E s \in snaps : s.snapshot_date = c.req.snapshot_date
        THEN [snapshots |-> snaps, call |-> Respond(c, 500, "IntegrityError snapshot_date")]
        ELSE [snapshots |-> snaps \cup {snapshot},
              call |-> Answer(c, 201, "Snapshot created successfully")]

(* The whole handler, run with no other call in between *)
create_snapshot(snaps, req) ==
    LET c == CheckExisting(snaps, req)
    IN  IF c.pc = "done" THEN [snapshots |-> snaps, call |-> c]
        ELSE InsertSnapshot(snaps, c)

RECURSIVE Ascending(_)
(* order_by(DailySnapshot.snapshot_date.asc()) *)
Ascending(snaps) ==
    IF snaps = {} THEN <<>>
    ELSE LET first == CHOOSE s \in snaps :
                          \A t \in snaps : s.snapshot_date <= t.snapshot_date
         IN  <<first>> \o Ascending(snaps \ {first})

(* lines 361-369: the entry returned for a snapshot *)
HistoryEntry(s) ==
    [snapshot_date |-> s.snapshot_date, total_net_worth |-> s.total_net_worth,
     equity_us |-> s.equity_us, equity_tw |-> s.equity_tw,
     equity_futures |-> s.equity_futures, cash_balance |-> s.cash_balance,
     usd_twd_rate |-> IF s.usd_twd_rate = <<0>> THEN Null ELSE s.usd_twd_rate]

get_assets_historyOpenEnd(snaps, start_date, end_date) ==
    LET query == {s \in snaps :
                     /\ start_date # 0 => s.snapshot_date >= start_date
                     /\ end_date # 0 => s.snapshot_date < end_date}
        ordered == Ascending(query)
    IN  [i \in 1..Len(ordered) |-> HistoryEntry(ordered[i])]

(* lines 340-371; a parameter that is absent or empty is 0 *)
get_assets_history(snaps, start_date, end_date) ==
    LET query == {s \in snaps :
                     /\ start_date # 0 => s.snapshot_date >= start_date
                     /\ end_date # 0 => s.snapshot_date <= end_date}
        ordered == Ascending(query)
    IN  [i \in 1..Len(ordered) |-> HistoryEntry(ordered[i])]

----------------------------------------------------------------------------
(* update_assets, step by step.  The session's flushed and pending writes   *)
(* are held in the call and reach the tables in CommitUpdate; the rows of   *)
(* the bulk DELETE are those its statement finds.                           *)

(* An element of the list posted; numeric is FALSE when float() raises on   *)
(* its quantity or current_price, and a key that is absent is "" or 0       *)
Item(symbol, market, quantity, current_price, numeric) ==
    [symbol |-> symbol, market |-> market, quantity |-> quantity,
     current_price |-> current_price, numeric |-> numeric]

AssetLists ==
    {<<>>,
     <<Item("TSM", "US", 1, 3, TRUE)>>,
     <<Item("TSM", "TW", 2, 2, TRUE), Item("TSM", "US", 1, 3, TRUE)>>,
     <<Item("TSM", "US", 2, 1, TRUE), Item("TSM", "TW", 1, 1, FALSE)>>,
     <<Item("", "US", 1, 1, TRUE)>>}

AssetPayloads ==
    {[list |-> TRUE, items |-> items] : items \in AssetLists}
    \cup {[list |-> FALSE, items |-> <<>>]}

UpdateCall(data, pc, k, new_instruments, processed, writes, deleted, status, message, error) ==
    [data |-> data, pc |-> pc, k |-> k, new_instruments |-> new_instruments,
     processed |-> processed, writes |-> writes, deleted |-> deleted,
     status |-> status, message |-> message, error |-> error]

(* A Holding added to the session or changed in it, for one (symbol, market) *)
HoldingWrite(pair, op, loaded, row) ==
    [pair |-> pair, op |-> op, loaded |-> loaded, row |-> row]

(* lines 56-61 *)
BeginUpdate(data) ==
    LET c == UpdateCall(data, "item", 1, <<>>, {}, {}, {}, 0, "", "")
    IN  IF ~data.list THEN Respond(c, 400, "Expected a list of assets")
        ELSE IF data.items = <<>> THEN [c EXCEPT !.pc = "delete"]
        ELSE c

(* lines 63-91: one turn of the loop *)
UpdateItemRecost(db, c) ==
    LET item == c.data.items[c.k]
        pair == Instrument(item.symbol, item.market)
        id == FindInstrument(db.instruments, item.symbol, item.market)
        created == \E i \in 1..Len(c.new_instruments) : c.new_instruments[i] = pair
        pending == {w \in c.writes : w.pair = pair}
        holding == IF id = 0 THEN NoHolding ELSE FindHolding(db.holdings, id)
        write ==
            IF pending # {}
            THEN LET w == CHOOSE w \in pending : TRUE
                 IN  [w EXCEPT !.row.quantity = item.quantity,
                               !.row.current_price = item.current_price]
            ELSE IF holding # NoHolding
            THEN HoldingWrite(pair, "update", holding,
                              [holding EXCEPT !.quantity = item.quantity,
                                              !.average_cost = item.current_price,
                                              !.current_price = item.current_price])
            ELSE HoldingWrite(pair, "insert", NoHolding,
                              PortfolioHolding(id, item.quantity, item.current_price,
                                               item.current_price))
        next == [c EXCEPT !.k = c.k + 1,
                          !.pc = IF c.k = Len(c.data.items) THEN "delete" ELSE "item"]
    IN  IF ~item.numeric THEN Respond(c, 500, "ValueError")
        ELSE IF item.symbol = "" \/ item.market = "" THEN next
        ELSE [next EXCEPT !.new_instruments = IF id = 0 /\ ~created
                                             THEN Append(c.new_instruments, pair)
                                             ELSE c.new_instruments,
                          !.processed = c.processed \cup {pair},
                          !.writes = (c.writes \ pending) \cup {write}]

UpdateItem(db, c) ==
    LET item == c.data.items[c.k]
        pair == Instrument(item.symbol, item.market)
        id == FindInstrument(db.instruments, item.symbol, item.market)
        created == \E i \in 1..Len(c.new_instruments) : c.new_instruments[i] = pair
        pending == {w \in c.writes : w.pair = pair}
        holding == IF id = 0 THEN NoHolding ELSE FindHolding(db.holdings, id)
        write ==
            IF pending # {}
            THEN LET w == CHOOSE w \in pending : TRUE
                 IN  [w EXCEPT !.row.quantity = item.quantity,
                               !.row.current_price = item.current_price]
            ELSE IF holding # NoHolding
            THEN HoldingWrite(pair, "update", holding,
                              [holding EXCEPT !.quantity = item.quantity,
                                              !.current_price = item.current_price])
            ELSE HoldingWrite(pair, "insert", NoHolding,
                              PortfolioHolding(id, item.quantity, item.current_price,
                                               item.current_price))
        next == [c EXCEPT !.k = c.k + 1,
                          !.pc = IF c.k = Len(c.data.items) THEN "delete" ELSE "item"]
    IN  IF ~item.numeric THEN Respond(c, 500, "ValueError")
        ELSE IF item.symbol = "" \/ item.market = "" THEN next
        ELSE [next EXCEPT !.new_instruments = IF id = 0 /\ ~created
                                             THEN Append(c.new_instruments, pair)
                                             ELSE c.new_instruments,
                          !.processed = c.processed \cup {pair},
                          !.writes = (c.writes \ pending) \cup {write}]

(* lines 93-99: the bulk DELETE *)
DeleteOthersNone(db, c) ==
    [c EXCEPT !.pc = "commit_update"]

DeleteOthers(db, c) ==
    LET processed_instrument_ids ==
            {FindInstrument(db.instruments, p.symbol, p.market) : p \in c.processed}
        stored == {h.instrument_id : h \in db.holdings}
    IN  [c EXCEPT !.pc = "commit_update",
                  !.deleted = IF c.processed # {}
                              THEN stored \ processed_instrument_ids
                              ELSE stored]

(* lines 101-105 *)
CommitUpdate(db, c) ==
    LET instrs == db.instruments \o c.new_instruments
        Id(w) == FindInstrument(instrs, w.pair.symbol, w.pair.market)
        Current(w) == FindHolding(db.holdings, Id(w))
        Written(w) == IF w.op = "insert" THEN [w.row EXCEPT !.instrument_id = Id(w)]
                      ELSE Flushed(Current(w), w.loaded, w.row)
        kept == {h \in db.holdings : \A w \in c.writes : Id(w) # h.instrument_id}
        hs == {h \in kept \cup {Written(w) : w \in c.writes} :
                  h.instrument_id \notin c.deleted}
    IN  IF \E i \in 1..Len(c.new_instruments) :
               FindInstrument(db.instruments, c.new_instruments[i].symbol,
                              c.new_instruments[i].market) # 0
        THEN [db |-> db, call |-> Respond(c, 500, "IntegrityError uq_instrument")]
        ELSE IF \E w \in c.writes : w.op = "insert" /\ Current(w) # NoHolding
        THEN [db |-> db, call |-> Respond(c, 500, "IntegrityError instrument_id")]
        ELSE IF \E w \in c.writes : w.op = "update" /\ Current(w) = NoHolding
        THEN [db |-> db, call |-> Respond(c, 500, "StaleDataError")]
        ELSE [db |-> Database(instrs, hs, db.transactions),
              call |-> Answer(c, 200, "Assets updated successfully")]

RECURSIVE RunUpdate(_, _)
RunUpdate(db, c) ==
    CASE c.pc = "done" -> [db |-> db, call |-> c]
      [] c.pc = "item" -> RunUpdate(db, UpdateItem(db, c))
      [] c.pc = "delete" -> RunUpdate(db, DeleteOthers(db, c))
      [] OTHER -> CommitUpdate(db, c)

update_assetsResetLedger(db, data) ==
    LET out == RunUpdate(db, BeginUpdate(data))
    IN  IF out.call.status = 200 THEN [out EXCEPT !.db.transactions = <<>>] ELSE out

update_assetsKeepInstruments(db, data) ==
    LET out == RunUpdate(db, BeginUpdate(data))
    IN  IF out.call.status = 500
        THEN [out EXCEPT !.db.instruments = db.instruments \o out.call.new_instruments]
        ELSE out

(* The whole handler, run with no other call in between *)
update_assets(db, data) == RunUpdate(db, BeginUpdate(data))

----------------------------------------------------------------------------
(* Every operation, one call at a time *)

OpsRequests ==
    {Request(required_fields, "TSM", "US", "BUY", 1, 1),
     Request(required_fields, "TSM", "US", "SELL", 1, 1)}

Trade ==
    \E req \in OpsRequests :
        \E out \in execute_trade(Committed, req) :
            /\ Len(out.db.transactions) <= MaxTx
            /\ instruments' = out.db.instruments
            /\ holdings' = out.db.holdings
            /\ transactions' = out.db.transactions
            /\ calls' = [calls EXCEPT ![1] = out.call]
            /\ UNCHANGED snapshots

UpdateAssets ==
    \E data \in AssetPayloads :
        LET out == update_assets(Committed, data)
        IN  /\ instruments' = out.db.instruments
            /\ holdings' = out.db.holdings
            /\ transactions' = out.db.transactions
            /\ calls' = [calls EXCEPT ![1] = out.call]
            /\ UNCHANGED snapshots

CreateSnapshot(reqs) ==
    \E req \in reqs :
        LET out == create_snapshot(snapshots, req)
        IN  /\ snapshots' = out.snapshots
            /\ calls' = [calls EXCEPT ![1] = out.call]
            /\ UNCHANGED <<instruments, holdings, transactions>>

AssetsHistory(dates) ==
    \E start_date \in dates, end_date \in dates :
        /\ calls' = [calls EXCEPT ![1] =
               [req |-> [start_date |-> start_date, end_date |-> end_date],
                pc |-> "done", status |-> 200,
                body |-> get_assets_history(snapshots, start_date, end_date)]]
        /\ UNCHANGED <<instruments, holdings, transactions, snapshots>>

AssetsOverview ==
    /\ calls' = [calls EXCEPT ![1] =
           [pc |-> "done", status |-> 200, body |-> get_assets_overview]]
    /\ UNCHANGED <<instruments, holdings, transactions, snapshots>>

NextOps ==
    \/ Trade
    \/ UpdateAssets
    \/ CreateSnapshot({req \in SnapshotRequests : req.snapshot_date = 1})
    \/ AssetsHistory({0})
    \/ AssetsOverview

SpecOps == Init /\ [][NextOps]_vars

----------------------------------------------------------------------------
(* The snapshot store alone, one call at a time *)

NextSnapshots == CreateSnapshot(SnapshotRequests) \/ AssetsHistory(0..MaxDate)

SpecSnapshots == Init /\ [][NextSnapshots]_vars

----------------------------------------------------------------------------
(* Two create_snapshot calls at a time, one per worker: the SELECT of the   *)
(* check reads the committed table, the INSERT lands at its commit.         *)

BeginSnapshot(w) ==
    /\ calls[w].pc = "idle"
    /\ \E req \in SnapshotRequests :
           calls' = [calls EXCEPT ![w] = CheckExisting(snapshots, req)]
    /\ UNCHANGED <<instruments, holdings, transactions, snapshots>>

Insert(w) ==
    /\ calls[w].pc = "insert"
    /\ LET out == InsertSnapshot(snapshots, calls[w])
       IN  /\ snapshots' = out.snapshots
           /\ calls' = [calls EXCEPT ![w] = out.call]
    /\ UNCHANGED <<instruments, holdings, transactions>>

NextSnapshotsConc == \E w \in Workers : BeginSnapshot(w) \/ Insert(w)

SpecSnapshotsConc == Init /\ [][NextSnapshotsConc]_vars

----------------------------------------------------------------------------
(* execute_trade and update_assets calls at a time, one call per worker *)

BeginAssets(w) ==
    /\ calls[w].pc = "idle"
    /\ \E data \in AssetPayloads : calls' = [calls EXCEPT ![w] = BeginUpdate(data)]
    /\ UNCHANGED <<instruments, holdings, transactions, snapshots>>

ItemTurn(w) ==
    /\ calls[w].pc = "item"
    /\ calls' = [calls EXCEPT ![w] = UpdateItem(Committed, calls[w])]
    /\ UNCHANGED <<instruments, holdings, transactions, snapshots>>

DeleteStatement(w) ==
    /\ calls[w].pc = "delete"
    /\ calls' = [calls EXCEPT ![w] = DeleteOthers(Committed, calls[w])]
    /\ UNCHANGED <<instruments, holdings, transactions, snapshots>>

CommitAssets(w) ==
    /\ calls[w].pc = "commit_update"
    /\ LET out == CommitUpdate(Committed, calls[w])
       IN  /\ instruments' = out.db.instruments
           /\ holdings' = out.db.holdings
           /\ transactions' = out.db.transactions
           /\ calls' = [calls EXCEPT ![w] = out.call]
    /\ UNCHANGED snapshots

NextMixed ==
    \E w \in Workers :
        \/ Begin(w) \/ Select(w) \/ Read(w) \/ CommitCall(w)
        \/ BeginAssets(w) \/ ItemTurn(w) \/ DeleteStatement(w) \/ CommitAssets(w)

SpecMixed == InitConc /\ [][NextMixed]_vars

----------------------------------------------------------------------------
(* Analytics engine (src/engine/framework.py): one backtest run.            *)
(*                                                                          *)
(* A float of the engine is a fraction <<num, den>> in lowest terms with    *)
(* den > 0; float('inf') is <<1, 0>> and float('-inf') is <<-1, 0>>.        *)

RECURSIVE GCD(_, _)
GCD(a, b) == IF b = 0 THEN a ELSE GCD(b, a % b)

Frac(num, den) ==
    LET g == GCD(Abs(num), Abs(den))
        s == IF den < 0 THEN -1 ELSE 1
    IN  <<s * (num \div g), s * (den \div g)>>

Float(n) == <<n, 1>>

inf == <<1, 0>>

Plus(a, b) == Frac(a[1] * b[2] + b[1] * a[2], a[2] * b[2])

Minus(a, b) == Frac(a[1] * b[2] - b[1] * a[2], a[2] * b[2])

Times(a, b) == Frac(a[1] * b[1], a[2] * b[2])

Over(a, b) == Frac(a[1] * b[2], a[2] * b[1])

Less(a, b) == a[1] * b[2] < b[1] * a[2]

abs(a) == <<Abs(a[1]), a[2]>>

max(a, b) == IF Less(a, b) THEN b ELSE a

min(a, b) == IF Less(b, a) THEN b ELSE a

(* round(x, 2): the nearest hundredth; a decimal tie is not a binary float, *)
(* so the float error decides its direction and both neighbours are        *)
(* outcomes.  round(inf, 2) is inf.                                        *)
round(x) ==
    IF x[2] = 0 THEN {x}
    ELSE {Frac(k, 100) : k \in Numeric(100 * x[1], x[2])}

RECURSIVE Sum(_)
Sum(xs) == IF xs = <<>> THEN Float(0) ELSE Plus(Head(xs), Sum(Tail(xs)))

----------------------------------------------------------------------------
(* The analyzers of a run.  A backtrader Trade is notified when it has just *)
(* opened and when it has closed; its size is the size of its first history *)
(* entry, pnl is gross and pnlcomm is net of commission.                    *)

BtTrade(ref, status, justopened, size, pnl, pnlcomm) ==
    [ref |-> ref, status |-> status, justopened |-> justopened,
     size |-> size, pnl |-> pnl, pnlcomm |-> pnlcomm]

Order(status, comm) == [status |-> status, comm |-> comm]

Put(dict, key, value) ==
    [k \in DOMAIN dict \cup {key} |-> IF k = key THEN value ELSE dict[k]]

(* CommissionAnalyzer *)
CommissionAnalyzerIgnoreStatus(total_commission, order) ==
    Plus(total_commission, order.comm)

CommissionAnalyzer(total_commission, order) ==
    IF order.status \in {"Completed"}
    THEN Plus(total_commission, order.comm)
    ELSE total_commission

(* TradeListAnalyzer: trades_dict is keyed by trade.ref *)
TradeListAnalyzer(trades_dict, trade, mult) ==
    IF trade.status \in {"Open", "Closed"}
    THEN LET orig_size == trade.size
             calc_size == IF orig_size # 0 THEN orig_size ELSE 1
             points == IF Less(Float(0), mult)
                       THEN Over(trade.pnl, Times(Float(Abs(calc_size)), mult))
                       ELSE Float(0)
         IN  {Put(trades_dict, trade.ref,
                  [ref |-> trade.ref, size |-> orig_size, pnl |-> trade.pnl,
                   pnlcomm |-> trade.pnlcomm, points |-> p,
                   is_closed |-> trade.status = "Closed"]) : p \in round(points)}
    ELSE {trades_dict}

(* bt.analyzers.TradeAnalyzer: an AutoOrderedDict, whose keys exist once    *)
(* they have been assigned; keys holds the dotted paths that exist.         *)
WonLost == [total |-> 0, pnl |-> [total |-> Float(0), average |-> Float(0), max |-> Float(0)]]

Streak == [current |-> 0, longest |-> 0]

NoTrades ==
    [keys |-> {"total", "total.total"},
     total |-> [total |-> 0, open |-> 0, closed |-> 0],
     streak |-> [won |-> Streak, lost |-> Streak],
     won |-> WonLost, lost |-> WonLost]

ClosedKeys ==
    {"total.open", "total.closed", "streak", "streak.won", "streak.lost",
     "won", "won.total", "won.pnl", "lost", "lost.total", "lost.pnl"}

TradeStreak(streak, wl) ==
    LET current == streak.current * wl + wl
    IN  [current |-> current,
         longest |-> IF streak.longest < current THEN current ELSE streak.longest]

TradeWonLost(trwl, wl, pnlcomm, wlname) ==
    LET total == trwl.total + wl
        pnl == Plus(trwl.pnl.total, pnlcomm)
    IN  [total |-> total,
         pnl |-> [total |-> pnl,
                  average |-> Over(pnl, Float(IF total # 0 THEN total ELSE 1)),
                  max |-> IF wlname = "won" THEN max(trwl.pnl.max, pnlcomm)
                          ELSE min(trwl.pnl.max, pnlcomm)]]

TradeAnalyzerLossAtZero(ta, trade) ==
    IF trade.justopened
    THEN [ta EXCEPT !.keys = @ \cup {"total.open"},
                    !.total.total = @ + 1, !.total.open = @ + 1]
    ELSE IF trade.status = "Closed"
    THEN LET won == IF Less(Float(0), trade.pnlcomm) THEN 1 ELSE 0
             lost == 1 - won
         IN  [ta EXCEPT !.keys = @ \cup ClosedKeys,
                        !.total.open = @ - 1, !.total.closed = @ + 1,
                        !.streak.won = TradeStreak(@, won),
                        !.streak.lost = TradeStreak(@, lost),
                        !.won = TradeWonLost(@, won, Times(trade.pnlcomm, Float(won)), "won"),
                        !.lost = TradeWonLost(@, lost, Times(trade.pnlcomm, Float(lost)), "lost")]
    ELSE ta

TradeAnalyzer(ta, trade) ==
    IF trade.justopened
    THEN [ta EXCEPT !.keys = @ \cup {"total.open"},
                    !.total.total = @ + 1, !.total.open = @ + 1]
    ELSE IF trade.status = "Closed"
    THEN LET won == IF ~Less(trade.pnlcomm, Float(0)) THEN 1 ELSE 0
             lost == 1 - won
         IN  [ta EXCEPT !.keys = @ \cup ClosedKeys,
                        !.total.open = @ - 1, !.total.closed = @ + 1,
                        !.streak.won = TradeStreak(@, won),
                        !.streak.lost = TradeStreak(@, lost),
                        !.won = TradeWonLost(@, won, Times(trade.pnlcomm, Float(won)), "won"),
                        !.lost = TradeWonLost(@, lost, Times(trade.pnlcomm, Float(lost)), "lost")]
    ELSE ta

(* bt.analyzers.DrawDown: notify_fund, then next, once per bar *)
NoDrawDown ==
    [maxvalue |-> <<-1, 0>>, len |-> 0,
     max |-> [len |-> 0, drawdown |-> Float(0), moneydown |-> Float(0)]]

DrawDownFromLast(dd, value) ==
    LET maxvalue == value
        moneydown == Minus(maxvalue, value)
        drawdown == Over(Times(Float(100), moneydown), maxvalue)
        len == IF drawdown # Float(0) THEN dd.len + 1 ELSE 0
    IN  [maxvalue |-> maxvalue, len |-> len,
         max |-> [len |-> IF dd.max.len < len THEN len ELSE dd.max.len,
                  drawdown |-> max(dd.max.drawdown, drawdown),
                  moneydown |-> max(dd.max.moneydown, moneydown)]]

DrawDown(dd, value) ==
    LET maxvalue == max(dd.maxvalue, value)
        moneydown == Minus(maxvalue, value)
        drawdown == Over(Times(Float(100), moneydown), maxvalue)
        len == IF drawdown # Float(0) THEN dd.len + 1 ELSE 0
    IN  [maxvalue |-> maxvalue, len |-> len,
         max |-> [len |-> IF dd.max.len < len THEN len ELSE dd.max.len,
                  drawdown |-> max(dd.max.drawdown, drawdown),
                  moneydown |-> max(dd.max.moneydown, moneydown)]]

----------------------------------------------------------------------------
(* The figures of run_strategy *)

(* A figure that is a square root is kept as its sign and its square *)
Root(sign, square) == [sign |-> sign, square |-> square]

Sign(x) == IF x[1] > 0 THEN 1 ELSE IF x[1] < 0 THEN -1 ELSE 0

RECURSIVE isqrt(_, _, _)
isqrt(n, lo, hi) ==
    IF lo = hi THEN lo
    ELSE LET mid == (lo + hi + 1) \div 2
         IN  IF mid * mid <= n THEN isqrt(n, mid, hi) ELSE isqrt(n, lo, mid - 1)

(* round(x, 2) of x = sign * sqrt(square): m is floor(200 * |x|) *)
roundRoot(x) ==
    IF x.square[2] = 0 THEN {inf}
    ELSE LET n == 40000 * x.square[1]
             d == x.square[2]
             m == isqrt(n \div d, 0, 40000)
             j == m \div 2
             ks == IF m % 2 = 0 THEN {j}
                   ELSE IF m * m * d = n THEN {j, j + 1} ELSE {j + 1}
         IN  {Frac(x.sign * k, 100) : k \in ks}

Squares(xs) == [i \in DOMAIN xs |-> Times(xs[i], xs[i])]

mean(xs) == Over(Sum(xs), Float(Len(xs)))

_calculate_sortinoNoDownsideZero(returns, risk_free_rate) ==
    IF Len(returns) < 2 THEN Root(0, Float(0))
    ELSE LET annualized_return == Times(mean(returns), Float(252))
             downside_returns == SelectSeq(returns, LAMBDA r : Less(r, risk_free_rate))
         IN  IF Len(downside_returns) = 0 THEN Root(0, Float(0))
             ELSE LET annual_downside_var == Times(mean(Squares(downside_returns)), Float(252))
                      excess == Minus(annualized_return, risk_free_rate)
                  IN  IF annual_downside_var # Float(0)
                      THEN Root(Sign(excess), Over(Times(excess, excess), annual_downside_var))
                      ELSE Root(0, Float(0))

_calculate_sortino(returns, risk_free_rate) ==
    IF Len(returns) < 2 THEN Root(0, Float(0))
    ELSE LET annualized_return == Times(mean(returns), Float(252))
             downside_returns == SelectSeq(returns, LAMBDA r : Less(r, risk_free_rate))
         IN  IF Len(downside_returns) = 0 THEN Root(1, inf)
             ELSE LET annual_downside_var == Times(mean(Squares(downside_returns)), Float(252))
                      excess == Minus(annualized_return, risk_free_rate)
                  IN  IF annual_downside_var # Float(0)
                      THEN Root(Sign(excess), Over(Times(excess, excess), annual_downside_var))
                      ELSE Root(0, Float(0))

(* x ** n for a natural n, and x ** (1 / q) where it is a fraction of small *)
(* terms: a run whose growth has no such root is outside the model         *)
RECURSIVE Pow(_, _)
Pow(x, n) ==
    IF n = 0 THEN Float(1)
    ELSE IF n % 2 = 0 THEN LET half == Pow(x, n \div 2) IN Times(half, half)
    ELSE Times(x, Pow(x, n - 1))

MaxTerm == 4

Roots(x, q) == {r \in {Frac(n, d) : n \in 1..MaxTerm, d \in 1..MaxTerm} : Pow(r, q) = x}

HasPower(x, exponent) ==
    \/ x = Float(1)
    \/ exponent[1] = 1 /\ exponent[2] <= 8 /\ Roots(x, exponent[2]) # {}

Power(x, exponent) ==
    IF x = Float(1) THEN Float(1) ELSE CHOOSE r \in Roots(x, exponent[2]) : TRUE

(* lines 181-192; a timestamp counts half days, timedelta.days whole days *)
Years(dates) ==
    IF Len(dates) > 1
    THEN LET total_days == (dates[Len(dates)] - dates[1]) \div 2
         IN  IF total_days > 0 THEN Over(Float(total_days), Frac(36525, 100)) ELSE Float(0)
    ELSE Float(0)

GrowthSimple(cash, end_cash, dates) ==
    LET net_profit == Minus(end_cash, cash)
        total_return_pct == Times(Over(net_profit, cash), Float(100))
        years == Years(dates)
    IN  [net_profit |-> net_profit, total_return_pct |-> total_return_pct,
         cagr |-> IF Less(Float(0), years)
                  THEN Over(total_return_pct, years)
                  ELSE Float(0)]

Growth(cash, end_cash, dates) ==
    LET net_profit == Minus(end_cash, cash)
        total_return_pct == Times(Over(net_profit, cash), Float(100))
        years == Years(dates)
    IN  [net_profit |-> net_profit, total_return_pct |-> total_return_pct,
         cagr |-> IF Less(Float(0), years)
                  THEN Times(Minus(Power(Over(end_cash, cash), Over(Float(1), years)),
                                   Float(1)), Float(100))
                  ELSE Float(0)]

(* line 201 *)
CalmarZero(cagr, mdd_pct) ==
    IF Less(Float(0), mdd_pct) THEN Over(cagr, mdd_pct) ELSE Float(0)

Calmar(cagr, mdd_pct) ==
    IF Less(Float(0), mdd_pct) THEN Over(cagr, mdd_pct) ELSE inf

(* line 212 *)
ExpectancyPerTrade(win_rate, avg_win, avg_loss) ==
    Minus(Times(Over(win_rate, Float(100)), avg_win), avg_loss)

Expectancy(win_rate, avg_win, avg_loss) ==
    Minus(Times(Over(win_rate, Float(100)), avg_win),
          Times(Minus(Float(1), Over(win_rate, Float(100))), avg_loss))

(* lines 194, 199, 203-215 *)
Has(ta, path) == path \in ta.keys

TradeStatisticsZero(ta) ==
    LET total_trades == IF Has(ta, "total") /\ Has(ta, "total.closed") THEN ta.total.closed ELSE 0
        win_rate == IF total_trades > 0 /\ Has(ta, "won") /\ Has(ta, "won.total")
                    THEN Times(Frac(ta.won.total, total_trades), Float(100)) ELSE Float(0)
        avg_win == IF Has(ta, "won") /\ Has(ta, "won.pnl") THEN ta.won.pnl.average ELSE Float(0)
        avg_loss == IF Has(ta, "lost") /\ Has(ta, "lost.pnl") THEN abs(ta.lost.pnl.average) ELSE Float(0)
        gross_profit == IF Has(ta, "won") /\ Has(ta, "won.pnl") THEN ta.won.pnl.total ELSE Float(0)
        gross_loss == IF Has(ta, "lost") /\ Has(ta, "lost.pnl") THEN abs(ta.lost.pnl.total) ELSE Float(0)
    IN  [total_trades |-> total_trades,
         largest_losing_trade |-> IF Has(ta, "lost") /\ Has(ta, "lost.pnl") THEN abs(ta.lost.pnl.max) ELSE Float(0),
         win_rate |-> win_rate, avg_win |-> avg_win, avg_loss |-> avg_loss,
         rr_ratio |-> IF Less(Float(0), avg_loss) THEN Over(avg_win, avg_loss) ELSE Float(0),
         gross_profit |-> gross_profit, gross_loss |-> gross_loss,
         profit_factor |-> IF Less(Float(0), gross_loss) THEN Over(gross_profit, gross_loss) ELSE Float(0),
         expectancy |-> Expectancy(win_rate, avg_win, avg_loss),
         max_consecutive_wins |-> IF Has(ta, "streak") /\ Has(ta, "streak.won") THEN ta.streak.won.longest ELSE 0,
         max_consecutive_losses |-> IF Has(ta, "streak") /\ Has(ta, "streak.lost") THEN ta.streak.lost.longest ELSE 0]

TradeStatistics(ta) ==
    LET total_trades == IF Has(ta, "total") /\ Has(ta, "total.closed") THEN ta.total.closed ELSE 0
        win_rate == IF total_trades > 0 /\ Has(ta, "won") /\ Has(ta, "won.total")
                    THEN Times(Frac(ta.won.total, total_trades), Float(100)) ELSE Float(0)
        avg_win == IF Has(ta, "won") /\ Has(ta, "won.pnl") THEN ta.won.pnl.average ELSE Float(0)
        avg_loss == IF Has(ta, "lost") /\ Has(ta, "lost.pnl") THEN abs(ta.lost.pnl.average) ELSE Float(0)
        gross_profit == IF Has(ta, "won") /\ Has(ta, "won.pnl") THEN ta.won.pnl.total ELSE Float(0)
        gross_loss == IF Has(ta, "lost") /\ Has(ta, "lost.pnl") THEN abs(ta.lost.pnl.total) ELSE Float(0)
    IN  [total_trades |-> total_trades,
         largest_losing_trade |-> IF Has(ta, "lost") /\ Has(ta, "lost.pnl") THEN abs(ta.lost.pnl.max) ELSE Float(0),
         win_rate |-> win_rate, avg_win |-> avg_win, avg_loss |-> avg_loss,
         rr_ratio |-> IF Less(Float(0), avg_loss) THEN Over(avg_win, avg_loss) ELSE inf,
         gross_profit |-> gross_profit, gross_loss |-> gross_loss,
         profit_factor |-> IF Less(Float(0), gross_loss) THEN Over(gross_profit, gross_loss) ELSE inf,
         expectancy |-> Expectancy(win_rate, avg_win, avg_loss),
         max_consecutive_wins |-> IF Has(ta, "streak") /\ Has(ta, "streak.won") THEN ta.streak.won.longest ELSE 0,
         max_consecutive_losses |-> IF Has(ta, "streak") /\ Has(ta, "streak.lost") THEN ta.streak.lost.longest ELSE 0]

(* line 217 *)
Friction(commissions, net_profit) ==
    IF net_profit # Float(0)
    THEN Times(Over(commissions, abs(net_profit)), Float(100)) ELSE Float(0)

(* lines 226-227 *)
Points(trade_list_data) == [i \in DOMAIN trade_list_data |-> trade_list_data[i].points]

(* lines 164-271: the report of a finished run.  figures holds the locals   *)
(* of run_strategy and metrics_export the rounded figures, by their keys.   *)
run_strategy(run) ==
    LET end_cash == run.value
        growth == Growth(run.cash, end_cash, run.dates)
        stats == TradeStatistics(run.ta)
        mdd_pct == run.dd.max.drawdown
        mdd_money == run.dd.max.moneydown
        sortino == _calculate_sortino(run.daily_return, Float(0))
        calmar == Calmar(growth.cagr, mdd_pct)
        comm_to_net_profit == Friction(run.commissions, growth.net_profit)
        total_net_points == Sum(Points(run.trade_list))
        figures == [net_profit |-> growth.net_profit,
                    total_return_pct |-> growth.total_return_pct,
                    cagr |-> growth.cagr, mdd_pct |-> mdd_pct, mdd_money |-> mdd_money,
                    sortino |-> sortino, calmar |-> calmar, stats |-> stats,
                    commissions |-> run.commissions,
                    comm_to_net_profit |-> comm_to_net_profit,
                    total_net_points |-> total_net_points]
    IN  {[run EXCEPT !.pc = "done", !.figures = figures, !.metrics_export =
            [net_profit |-> f1, total_net_points |-> f2, total_return_pct |-> f3,
             cagr_pct |-> f4, total_trades |-> stats.total_trades,
             mdd_pct |-> f5, mdd_money |-> f6, mdd_duration_bars |-> run.dd.max.len,
             largest_losing_trade |-> f7, sortino_ratio |-> f8, calmar_ratio |-> f9,
             win_rate_pct |-> f10, average_win |-> f11, average_loss |-> f12,
             risk_reward_ratio |-> f13, profit_factor |-> f14, expectancy |-> f15,
             max_consecutive_wins |-> stats.max_consecutive_wins,
             max_consecutive_losses |-> stats.max_consecutive_losses,
             total_commission |-> f16, commission_to_net_profit_pct |-> f17]] :
         f1 \in round(growth.net_profit), f2 \in round(total_net_points),
         f3 \in round(growth.total_return_pct), f4 \in round(growth.cagr),
         f5 \in round(mdd_pct), f6 \in round(mdd_money),
         f7 \in round(stats.largest_losing_trade), f8 \in roundRoot(sortino),
         f9 \in round(calmar), f10 \in round(stats.win_rate),
         f11 \in round(stats.avg_win), f12 \in round(stats.avg_loss),
         f13 \in round(stats.rr_ratio), f14 \in round(stats.profit_factor),
         f15 \in round(stats.expectancy), f16 \in round(run.commissions),
         f17 \in round(comm_to_net_profit)}

(* A run: the parameters of run_strategy, what cerebro.run() has simulated  *)
(* so far (trades, orders, the broker's value per bar, the bars' dates, the *)
(* daily returns) and what the analyzers have made of it.                   *)
Run(cash, mult) ==
    [pc |-> "run", cash |-> cash, mult |-> mult, value |-> cash,
     trades |-> <<>>, ta |-> NoTrades, trade_list |-> <<>>,
     orders |-> <<>>, commissions |-> Float(0),
     values |-> <<>>, dates |-> <<>>, dd |-> NoDrawDown,
     daily_return |-> <<>>,
     sortino |-> [returns |-> <<>>, risk_free_rate |-> Float(0), result |-> Root(0, Float(0))],
     figures |-> <<>>, metrics_export |-> <<>>]

IsRun(c) == "metrics_export" \in DOMAIN c

InitRun(cashes, mults) ==
    /\ instruments = {}
    /\ holdings = {}
    /\ transactions = <<>>
    /\ snapshots = {}
    /\ \E cash \in cashes, mult \in mults : calls = <<Run(Float(cash), Float(mult))>>

Tables0 == UNCHANGED <<instruments, holdings, transactions, snapshots>>

NotifyTrade(trade) ==
    \E trade_list \in TradeListAnalyzer(calls[1].trade_list, trade, calls[1].mult) :
        calls' = <<[calls[1] EXCEPT !.trades = Put(@, trade.ref, trade),
                                    !.ta = TradeAnalyzer(@, trade),
                                    !.trade_list = trade_list]>>

OpenTrade(sizes, max_trades, max_open) ==
    /\ calls[1].pc = "run"
    /\ Len(calls[1].trades) < max_trades
    /\ Cardinality({i \in DOMAIN calls[1].trades : calls[1].trades[i].status = "Open"}) < max_open
    /\ \E size \in sizes :
           NotifyTrade(BtTrade(Len(calls[1].trades) + 1, "Open", TRUE, size, Float(0), Float(0)))
    /\ Tables0

CloseTrade(results) ==
    /\ calls[1].pc = "run"
    /\ \E ref \in DOMAIN calls[1].trades, result \in results :
           /\ calls[1].trades[ref].status = "Open"
           /\ NotifyTrade(BtTrade(ref, "Closed", FALSE, calls[1].trades[ref].size,
                                Float(result[1]), Float(result[2])))
    /\ Tables0

NotifyOrder(orders, max_orders) ==
    /\ calls[1].pc = "run"
    /\ Len(calls[1].orders) < max_orders
    /\ \E order \in orders :
           calls' = <<[calls[1] EXCEPT !.orders = Append(@, order),
                                       !.commissions = CommissionAnalyzer(@, order)]>>
    /\ Tables0

(* The first bar finds the broker at its starting cash *)
Bar(values, steps, max_bars) ==
    /\ calls[1].pc = "run"
    /\ Len(calls[1].values) < max_bars
    /\ \E v \in values, step \in steps :
           LET first == calls[1].values = <<>>
               value == IF first THEN calls[1].cash ELSE Float(v)
               date == IF first THEN 0 ELSE calls[1].dates[Len(calls[1].dates)] + step
           IN  calls' = <<[calls[1] EXCEPT !.value = value,
                                           !.values = Append(@, value),
                                           !.dates = Append(@, date),
                                           !.dd = DrawDown(@, value)]>>
    /\ Tables0

Day(returns, max_days) ==
    /\ calls[1].pc = "run"
    /\ Len(calls[1].daily_return) < max_days
    /\ \E r \in returns :
           calls' = <<[calls[1] EXCEPT !.daily_return = Append(@, r)]>>
    /\ Tables0

Sortino(rates) ==
    /\ calls[1].pc = "run"
    /\ \E risk_free_rate \in rates :
           calls' = <<[calls[1] EXCEPT !.sortino =
                         [returns |-> calls[1].daily_return,
                          risk_free_rate |-> risk_free_rate,
                          result |-> _calculate_sortino(calls[1].daily_return, risk_free_rate)]]>>
    /\ Tables0

Representable(run) ==
    LET years == Years(run.dates)
    IN  Less(Float(0), years) => HasPower(Over(run.value, run.cash), Over(Float(1), years))

Report ==
    /\ calls[1].pc = "run"
    /\ Representable(calls[1])
    /\ \E run \in run_strategy(calls[1]) : calls' = <<run>>
    /\ Tables0

(* Trades of mixed sizes and results, with and without a multiplier *)
MaxTrades == 3

Sizes == {1, -5}

Results == {<<100, 0>>, <<1, -105>>, <<-500, -606>>}

NextTrades == OpenTrade(Sizes, MaxTrades, MaxTrades) \/ CloseTrade(Results) \/ Report

SpecTrades == InitRun({100}, {50, 0}) /\ [][NextTrades]_vars

(* One position at a time, won or lost by a fixed amount *)
MaxClosed == 10

NextTradeStats ==
    \/ OpenTrade({1}, MaxClosed, 1)
    \/ CloseTrade({<<1000, 1000>>, <<-500, -500>>})
    \/ Report

SpecTradeStats == InitRun({100}, {50}) /\ [][NextTradeStats]_vars

(* The broker's value bar by bar, all bars within one day *)
MaxBars == 4

EquityValues == {90000, 100000, 120000, 130000, 1500000, 1600000}

NextEquity == Bar(EquityValues, {0}, MaxBars) \/ Report

SpecEquity == InitRun({100000}, {50}) /\ [][NextEquity]_vars

(* Bars half a day or four years after the one before *)
GrowthValues == {100000, 1600000}

Steps == {0, 1, 2922}

NextGrowth == Bar(GrowthValues, Steps, MaxBars) \/ Report

SpecGrowth == InitRun(GrowthValues, {50}) /\ [][NextGrowth]_vars

(* Daily returns of the TimeReturn analyzer, in hundredths *)
MaxDays == 3

Returns == {Frac(-2, 100), Frac(-1, 100), Float(0), Frac(1, 100)}

RiskFreeRates == {Float(0), Frac(1, 100)}

NextReturns == Day(Returns, MaxDays) \/ Sortino(RiskFreeRates) \/ Report

SpecReturns == InitRun({100000}, {50}) /\ [][NextReturns]_vars

(* Order notifications: the commission of an order that is not Completed    *)
(* is what it has executed so far                                           *)
MaxOrders == 3

Orders ==
    {Order("Accepted", Float(0)), Order("Partial", Float(53)),
     Order("Completed", Float(53)), Order("Completed", Float(106))}

OrderValues == {90000, 100000, 120000}

NextOrders == NotifyOrder(Orders, MaxOrders) \/ Bar(OrderValues, {0}, MaxBars) \/ Report

SpecOrders == InitRun({100000}, {50}) /\ [][NextOrders]_vars

----------------------------------------------------------------------------
(* require_auth (lines 11-20).  A header or an environment variable that    *)
(* may be missing is a set: {} for None, {s} for the string s.              *)

ApiKeys == {{}, {"secret"}}

Headers == {{}, {"secret"}, {"wrong"}}

AuthRequests == {Request(required_fields, "TSM", "US", "BUY", 1, 1)}

AuthPayloads == {[list |-> TRUE, items |-> <<>>]}

AuthSnapshots == {SnapshotRequest(snapshot_fields, 1, 1, 1, 1)}

require_auth(api_key, header) == header = api_key

AuthCall(route, api_key, header, ran, status) ==
    [route |-> route, api_key |-> api_key, header |-> header, ran |-> ran, status |-> status]

IsAuthCall(c) == "header" \in DOMAIN c

Result(db, snaps, status) == [db |-> db, snapshots |-> snaps, status |-> status]

(* decorated: the handler runs on the committed tables, or the answer is 401 *)
Decorated(route, results) ==
    \E api_key \in ApiKeys, header \in Headers :
        IF require_auth(api_key, header)
        THEN \E out \in results :
                 /\ Len(out.db.transactions) <= MaxTx
                 /\ instruments' = out.db.instruments
                 /\ holdings' = out.db.holdings
                 /\ transactions' = out.db.transactions
                 /\ snapshots' = out.snapshots
                 /\ calls' = <<AuthCall(route, api_key, header, TRUE, out.status)>>
        ELSE /\ UNCHANGED <<instruments, holdings, transactions, snapshots>>
             /\ calls' = <<AuthCall(route, api_key, header, FALSE, 401)>>

(* line 40: the one route without the decorator *)
Index ==
    /\ UNCHANGED <<instruments, holdings, transactions, snapshots>>
    /\ \E api_key \in ApiKeys, header \in Headers :
           calls' = <<AuthCall("/", api_key, header, TRUE, 200)>>

RouteTrade ==
    Decorated("/api/portfolio/trade",
              {Result(out.db, snapshots, out.call.status) :
                   out \in UNION {execute_trade(Committed, req) : req \in AuthRequests}})

RouteUpdateAssets ==
    Decorated("/api/admin/update-assets",
              {Result(update_assets(Committed, data).db, snapshots,
                      update_assets(Committed, data).call.status) : data \in AuthPayloads})

RouteSnapshots ==
    Decorated("/api/snapshots",
              {Result(Committed, create_snapshot(snapshots, req).snapshots,
                      create_snapshot(snapshots, req).call.status) :
                   req \in AuthSnapshots})

RouteReads ==
    \E route \in {"/api/assets/overview", "/api/assets/history"} :
        Decorated(route, {Result(Committed, snapshots, 200)})

NextAuth == Index \/ RouteTrade \/ RouteUpdateAssets \/ RouteSnapshots \/ RouteReads

SpecAuth == Init /\ [][NextAuth]_vars

----------------------------------------------------------------------------
(* Breakout strategies: src/engine/strategies                               *)
(*                                                                          *)
(* One run of cerebro over a feed of intraday bars.  Each step delivers one *)
(* bar: the broker first tries the pending orders against it, the strategy  *)
(* is then told of every order that was cancelled since the last bar or     *)
(* executed on this one, and at last its next() runs; an order submitted    *)
(* in next() is first tried on the following bar.                           *)

MaxSessions == 3

amp_threshold == 100

time_915 == 915

time_930 == 930

stop_loss_pts == 60

exit_time == 1330

slippage == 2

stake == 1

vol_pct_915 == Frac(20, 100)

vol_pct_930 == Frac(30, 100)

(* Times of the bars of one session, hhmm *)
Session == <<915, 930, 1000, 1330>>

Prices == {1000, 1100, 1200}

Volumes == {0, 1}

(* data_daily.close[0] against fast_ma[0] against slow_ma[0] *)
Signals == {"long", "exit", "none"}

Highest(a, b) == IF a < b THEN b ELSE a

Lowest(a, b) == IF b < a THEN b ELSE a

Kbar(open, close, volume) ==
    [open |-> open, high |-> Highest(open, close), low |-> Lowest(open, close),
     close |-> close, volume |-> volume]

(* Flat and falling bars *)
(* Flat and falling bars *)
Kbars ==
    LET all == {Kbar(open, close, volume) : open \in Prices, close \in Prices, volume \in Volumes}
    IN  {bar \in all : bar.close <= bar.open}

DailyBar(high, low, volume) == [high |-> high, low |-> low, volume |-> volume]

(* The daily bar that precedes the first session of the feed *)
History == DailyBar(1200, 1200, 5)

(* df.resample('D'): High max, Low min, Volume sum *)
Resample(daily, bar, first) ==
    IF first THEN DailyBar(bar.high, bar.low, bar.volume)
    ELSE DailyBar(Highest(daily.high, bar.high), Lowest(daily.low, bar.low),
                  daily.volume + bar.volume)

(* An order of the broker: size > 0 buys, size < 0 sells *)
BtOrder(ref, exectype, size, price) ==
    [ref |-> ref, exectype |-> exectype, size |-> size, price |-> price]

Notification(order, status, price) == [order |-> order, status |-> status, price |-> price]

(* Strategy.__init__ with the broker and the feed before the first bar.     *)
(* None is {} in yesterday_vol and lower_pivot and 0 in active_order and    *)
(* current_day_session; float('inf') is inf.  traded_today is the field     *)
(* short_triggered_today of CombinedMABreakoutStrategy.  short_fills counts *)
(* the day's fills of sell stop orders that left the position short and     *)
(* opened is the fill price of the sell that took the position below zero,  *)
(* on the day opened_day; fills are the executions on the last bar.         *)
Strategy(cls) ==
    [cls |-> cls, day |-> 0, slot |-> Len(Session), bar |-> Kbar(0, 0, 0),
     daily |-> History, yesterday |-> History,
     position |-> 0, pending |-> <<>>, notifs |-> <<>>, nextref |-> 1,
     current_day_session |-> 0, traded_today |-> FALSE, setup_triggered |-> FALSE,
     intraday_high |-> Float(0), intraday_low |-> inf, cum_vol |-> 0,
     yesterday_vol |-> {}, lower_pivot |-> {},
     active_order |-> 0, entry_price |-> 0, stop_price |-> 0,
     events |-> {}, fills |-> <<>>, entries |-> 0, short_fills |-> 0,
     opened |-> 0, opened_day |-> 0]

IsStrategy(c) == "cls" \in DOMAIN c

(* The feed delivers the next bar; the daily feed closes the day before *)
Advance(s, bar) ==
    LET first == s.slot = Len(Session)
    IN  [s EXCEPT !.day = IF first THEN @ + 1 ELSE @,
                  !.slot = IF first THEN 1 ELSE @ + 1,
                  !.bar = bar,
                  !.yesterday = IF first THEN s.daily ELSE @,
                  !.daily = Resample(@, bar, first),
                  !.entries = IF first THEN 0 ELSE @,
                  !.short_fills = IF first THEN 0 ELSE @,
                  !.events = {},
                  !.fills = <<>>]

(* BackBroker._try_exec: a market order executes at the open, a sell stop   *)
(* at the open when the bar opens at or below its price and else at its     *)
(* price when the low reaches it; the fixed slippage goes against the order *)
Executed(order, bar) ==
    IF order.exectype = "Market"
    THEN {IF order.size > 0 THEN bar.open + slippage ELSE bar.open - slippage}
    ELSE IF bar.open <= order.price THEN {bar.open - slippage}
    ELSE IF bar.low <= order.price THEN {order.price - slippage}
    ELSE {}

RECURSIVE TryExec(_, _)
TryExec(s, orders) ==
    IF orders = <<>> THEN s
    ELSE LET order == Head(orders)
             size == s.position + order.size
             executed == [s EXCEPT
                 !.position = size,
                 !.notifs = Append(@, Notification(order, "Completed",
                                                   CHOOSE p \in Executed(order, s.bar) : TRUE)),
                 !.short_fills = IF order.exectype = "Stop" /\ size < 0 THEN @ + 1 ELSE @,
                 !.opened = IF size >= 0 THEN 0
                            ELSE IF s.position >= 0
                            THEN CHOOSE p \in Executed(order, s.bar) : TRUE ELSE @,
                 !.opened_day = IF size >= 0 THEN 0
                                ELSE IF s.position >= 0 THEN s.day ELSE @,
                 !.fills = Append(@, [exectype |-> order.exectype,
                                      before |-> s.position, after |-> size])]
         IN  IF Executed(order, s.bar) = {}
             THEN TryExec([s EXCEPT !.pending = Append(@, order)], Tail(orders))
             ELSE TryExec(executed, Tail(orders))

(* BackBroker.next tries the pending orders in the order of their submission *)
BrokerNext(s) == TryExec([s EXCEPT !.pending = <<>>], s.pending)

(* Strategy.cancel: the broker drops the order and queues the notification *)
cancel(s, ref) ==
    LET found == SelectSeq(s.pending, LAMBDA o : o.ref = ref)
    IN  IF found = <<>> THEN [s EXCEPT !.events = @ \cup {"cancel"}]
        ELSE [s EXCEPT !.pending = SelectSeq(@, LAMBDA o : o.ref # ref),
                       !.notifs = Append(@, Notification(found[1], "Canceled", 0)),
                       !.events = @ \cup {"cancel"}]

Submit(s, event, exectype, size, price) ==
    [s EXCEPT !.pending = Append(@, BtOrder(s.nextref, exectype, size, price)),
              !.nextref = @ + 1,
              !.events = @ \cup {event}]

(* Strategy.buy with the FixedSize sizer *)
buy(s) == Submit(s, "buy", "Market", stake, 0)

(* Strategy.sell(exectype=bt.Order.Stop, price=..., size=...) *)
sell(s, price, size) ==
    [Submit(s, "sell", "Stop", -size, price)
        EXCEPT !.active_order = s.nextref, !.entries = @ + 1]

(* Strategy.close: a market order against the whole position *)
close(s) ==
    IF s.position = 0 THEN [s EXCEPT !.events = @ \cup {"close"}]
    ELSE Submit(s, "close", "Market", -s.position, 0)

lower_pivot(daily) ==
    Minus(Float(daily.high), Times(Float(daily.high - daily.low), Frac(1382, 1000)))

amp_ok(s) == ~Less(Minus(s.intraday_high, s.intraday_low), Float(amp_threshold))

vol_ok(s) ==
    LET t == Session[s.slot]
    IN  \E yesterday_vol \in s.yesterday_vol :
            IF t <= time_915
            THEN ~Less(Float(s.cum_vol), Times(Float(yesterday_vol), vol_pct_915))
            ELSE t <= time_930
                 /\ ~Less(Float(s.cum_vol), Times(Float(yesterday_vol), vol_pct_930))

pivot_ok(s) ==
    \E pivot \in s.lower_pivot :
        Less(Float(s.bar.close), pivot) /\ Less(s.intraday_low, pivot)

(* next(), lines 68-97: the daily reset and the running high, low, volume *)
Intraday(s) ==
    LET reset == IF s.current_day_session = s.day THEN s
                 ELSE LET c == IF s.active_order # 0 THEN cancel(s, s.active_order) ELSE s
                      IN  [c EXCEPT !.current_day_session = s.day,
                                    !.traded_today = FALSE,
                                    !.setup_triggered = FALSE,
                                    !.intraday_high = Float(s.bar.high),
                                    !.intraday_low = Float(s.bar.low),
                                    !.cum_vol = 0,
                                    !.active_order = 0,
                                    !.yesterday_vol = {s.yesterday.volume},
                                    !.lower_pivot = {lower_pivot(s.yesterday)}]
    IN  reset

Update(s) ==
    [s EXCEPT !.intraday_high = max(@, Float(s.bar.high)),
              !.intraday_low = min(@, Float(s.bar.low)),
              !.cum_vol = @ + s.bar.volume]

(* MorningBreakoutShortStrategy.notify_order *)
MorningNotifyOrder(s, n) ==
    IF n.status = "Completed"
    THEN IF n.order.size < 0
         THEN [s EXCEPT !.entry_price = n.price,
                        !.traded_today = TRUE,
                        !.stop_price = n.price + stop_loss_pts,
                        !.active_order = 0]
         ELSE [s EXCEPT !.active_order = 0]
    ELSE [s EXCEPT !.active_order = 0]

(* CombinedMABreakoutStrategy.notify_order *)
CombinedNotifyOrder(s, n) ==
    IF n.status = "Completed"
    THEN IF n.order.size < 0 /\ s.position < 0
         THEN [s EXCEPT !.entry_price = n.price,
                        !.traded_today = TRUE,
                        !.stop_price = n.price + stop_loss_pts,
                        !.active_order = 0]
         ELSE [s EXCEPT !.active_order = 0]
    ELSE [s EXCEPT !.active_order = 0]

(* Strategy._notify: every queued notification, oldest first, against the   *)
(* position as the broker left it                                           *)
RECURSIVE Notify(_, _)
Notify(s, notifs) ==
    IF notifs = <<>> THEN s
    ELSE Notify(IF s.cls = "morning" THEN MorningNotifyOrder(s, Head(notifs))
                ELSE CombinedNotifyOrder(s, Head(notifs)),
                Tail(notifs))

(* MorningBreakoutShortStrategy.next *)
MorningNext(s) ==
    LET t == Session[s.slot]
        u == Update(Intraday(s))
    IN  IF t >= exit_time
        THEN LET c == IF u.active_order # 0
                      THEN [cancel(u, u.active_order) EXCEPT !.active_order = 0]
                      ELSE u
             IN  IF c.position # 0 THEN close(c) ELSE c
        ELSE IF u.position # 0
        THEN IF u.bar.close >= u.stop_price \/ u.bar.high >= u.stop_price
             THEN close(u) ELSE u
        ELSE IF /\ ~u.traded_today /\ ~u.setup_triggered
                /\ \E yesterday_vol \in u.yesterday_vol : yesterday_vol > 0
        THEN IF amp_ok(u) /\ vol_ok(u) /\ pivot_ok(u)
             THEN LET e == [u EXCEPT !.setup_triggered = TRUE,
                                     !.events = @ \cup {"setup"}]
                  IN  IF e.active_order = 0
                      THEN sell(e, e.intraday_low[1], stake) ELSE e
             ELSE [u EXCEPT !.events = @ \cup {"setup"}]
        ELSE u

(* CombinedMABreakoutStrategy.next, lines 98-109: the daily long leg *)
DailyLong(s, signal) ==
    IF s.position > 0
    THEN IF signal = "exit" THEN close(s) ELSE s
    ELSE IF s.position = 0
    THEN IF signal = "long" THEN buy(s) ELSE s
    ELSE s

(* CombinedMABreakoutStrategy.next *)
CombinedNext(s, signal) ==
    LET t == Session[s.slot]
        r == Intraday(s)
        u == Update(IF s.current_day_session = s.day THEN r ELSE DailyLong(r, signal))
    IN  IF t >= exit_time
        THEN LET c == IF u.active_order # 0
                      THEN [cancel(u, u.active_order) EXCEPT !.active_order = 0]
                      ELSE u
             IN  IF c.position < 0 THEN close(c) ELSE c
        ELSE IF u.position < 0
        THEN IF u.bar.close >= u.stop_price \/ u.bar.high >= u.stop_price
             THEN close(u) ELSE u
        ELSE IF /\ ~u.traded_today /\ ~u.setup_triggered
                /\ \E yesterday_vol \in u.yesterday_vol : yesterday_vol > 0
        THEN IF amp_ok(u) /\ vol_ok(u) /\ pivot_ok(u)
             THEN LET e == [u EXCEPT !.setup_triggered = TRUE,
                                     !.events = @ \cup {"setup"}]
                      order_size == IF e.position > 0 THEN 2 ELSE 1
                  IN  IF e.active_order = 0
                      THEN sell(e, e.intraday_low[1], order_size) ELSE e
             ELSE [u EXCEPT !.events = @ \cup {"setup"}]
        ELSE u

InitStrategy(classes) ==
    /\ instruments = {}
    /\ holdings = {}
    /\ transactions = <<>>
    /\ snapshots = {}
    /\ \E cls \in classes : calls = <<Strategy(cls)>>

More(s) == s.day < MaxSessions \/ s.slot < Len(Session)

MorningBar ==
    /\ calls[1].cls = "morning"
    /\ More(calls[1])
    /\ \E bar \in Kbars :
           calls' = <<MorningNext(LET b == BrokerNext(Advance(calls[1], bar))
                                  IN  Notify([b EXCEPT !.notifs = <<>>], b.notifs))>>
    /\ Tables0

CombinedBar ==
    /\ calls[1].cls = "combined"
    /\ More(calls[1])
    /\ \E bar \in Kbars, signal \in IF calls[1].slot = Len(Session) THEN Signals ELSE {"none"} :
           calls' = <<CombinedNext(LET b == BrokerNext(Advance(calls[1], bar))
                                   IN  Notify([b EXCEPT !.notifs = <<>>], b.notifs), signal)>>
    /\ Tables0

NextStrategies == MorningBar \/ CombinedBar

SpecStrategies == InitStrategy({"morning", "combined"}) /\ [][NextStrategies]_vars

----------------------------------------------------------------------------
(* OHLCV builder: src/ohlcv_builder.py                                      *)
(*                                                                          *)
(* A date is the number of its day in 2024 (28 is Sunday 28 January, 31 is  *)
(* Wednesday 31 January, 36 is Monday 5 February) and a time of day is in   *)
(* seconds.  The declaration of OhlcvData is not part of the sources: the   *)
(* table is the rows that the builder writes, with or without a uniqueness  *)
(* constraint on (product_code, timeframe, timestamp).                      *)

MaxBuilds == 3

Products == {"TX", "MTX"}

BuildDates == {28, 31, 36}

OhlcvDataUnique == BOOLEAN

TIMEFRAMES ==
    <<[tf_name |-> "1min", pd_tf |-> "1min"], [tf_name |-> "5min", pd_tf |-> "5min"],
      [tf_name |-> "15min", pd_tf |-> "15min"], [tf_name |-> "1H", pd_tf |-> "1h"],
      [tf_name |-> "4H", pd_tf |-> "4h"], [tf_name |-> "1D", pd_tf |-> "1D"],
      [tf_name |-> "1W", pd_tf |-> "1W"], [tf_name |-> "1M", pd_tf |-> "ME"]>>

Tick(trade_time, price, volume) ==
    [trade_time |-> trade_time, price |-> price, volume |-> volume]

(* The ticks of a product on a date, in the order of trade_time *)
TickData ==
    {<<>>,
     <<Tick(31500, 100, 1)>>,
     <<Tick(31500, 100, 1), Tick(31530, 102, 2), Tick(46800, 99, 1)>>}

Timestamp(date, time) == [date |-> date, time |-> time]

(* The label of the bin of df.resample(pd_tf) that holds a tick: the left   *)
(* edge of an intraday or daily bin, the right edge of a week (the Sunday   *)
(* on or after the date) or a month (its last day)                          *)
Label(pd_tf, date, time) ==
    CASE pd_tf = "1min" -> Timestamp(date, time - (time % 60))
      [] pd_tf = "5min" -> Timestamp(date, time - (time % 300))
      [] pd_tf = "15min" -> Timestamp(date, time - (time % 900))
      [] pd_tf = "1h" -> Timestamp(date, time - (time % 3600))
      [] pd_tf = "4h" -> Timestamp(date, time - (time % 14400))
      [] pd_tf = "1D" -> Timestamp(date, 0)
      [] pd_tf = "1W" -> Timestamp(date + ((7 - (date % 7)) % 7), 0)
      [] pd_tf = "ME" -> Timestamp(IF date <= 31 THEN 31 ELSE 60, 0)

Earlier(a, b) == a.date < b.date \/ (a.date = b.date /\ a.time < b.time)

RECURSIVE Sorted(_)
Sorted(timestamps) ==
    IF timestamps = {} THEN <<>>
    ELSE LET first == CHOOSE t \in timestamps : \A u \in timestamps \ {t} : Earlier(t, u)
         IN  <<first>> \o Sorted(timestamps \ {first})

RECURSIVE Fold(_, _, _)
Fold(prices, high, n) ==
    IF n = 0 THEN IF high THEN 0 ELSE 1000000
    ELSE LET rest == Fold(prices, high, n - 1)
         IN  IF high THEN Highest(rest, prices[n].price) ELSE Lowest(rest, prices[n].price)

RECURSIVE Volume(_)
Volume(ticks) == IF ticks = <<>> THEN 0 ELSE Head(ticks).volume + Volume(Tail(ticks))

(* One row of OhlcvData: the 'ohlc' of the prices and the sum of the volumes *)
OhlcvData(product_code, tf_name, timestamp, ticks) ==
    [product_code |-> product_code, timeframe |-> tf_name, timestamp |-> timestamp,
     open |-> ticks[1].price, high |-> Fold(ticks, TRUE, Len(ticks)),
     low |-> Fold(ticks, FALSE, Len(ticks)), close |-> ticks[Len(ticks)].price,
     volume |-> Volume(ticks)]

(* df.resample(pd_tf).apply(ohlc_dict) after dropna: a row per bin with ticks *)
Resampled(df, product_code, tf, date) ==
    LET labels == Sorted({Label(tf.pd_tf, date, df[i].trade_time) : i \in DOMAIN df})
        bin(label) == SelectSeq(df, LAMBDA tick : Label(tf.pd_tf, date, tick.trade_time) = label)
    IN  [i \in DOMAIN labels |-> OhlcvData(product_code, tf.tf_name, labels[i], bin(labels[i]))]

Key(row) == <<row.product_code, row.timeframe, row.timestamp>>

(* lines 82-86: the rows of the product whose timestamp is on the date *)
DeleteForDate(table, product_code, target_date) ==
    SelectSeq(table, LAMBDA row : ~(row.product_code = product_code
                                     /\ row.timestamp.date = target_date))

(* lines 121-128: one transaction per timeframe; a violated constraint      *)
(* rolls it back and the error is printed                                   *)
bulk_insert_mappings(table, rows, unique) ==
    IF unique /\ \E i \in DOMAIN rows, j \in DOMAIN table : Key(rows[i]) = Key(table[j])
    THEN table
    ELSE table \o rows

RECURSIVE BuildTimeframes(_, _, _, _, _, _)
BuildTimeframes(table, df, product_code, target_date, unique, n) ==
    IF n = 0 THEN table
    ELSE bulk_insert_mappings(
             BuildTimeframes(table, df, product_code, target_date, unique, n - 1),
             Resampled(df, product_code, TIMEFRAMES[n], target_date), unique)

build_ohlcv_for_date(table, df, product_code, target_date, unique) ==
    IF df = <<>> THEN table
    ELSE BuildTimeframes(DeleteForDate(table, product_code, target_date), df,
                         product_code, target_date, unique, Len(TIMEFRAMES))

(* The store with the ticks every build reads; before is the table before   *)
(* the last build and repeat tells that the last two builds had one target  *)
Store(df, unique) ==
    [tick_data |-> df, unique |-> unique, ohlcv_data |-> <<>>, before |-> <<>>,
     target |-> <<>>, repeat |-> FALSE, builds |-> 0]

IsStore(c) == "ohlcv_data" \in DOMAIN c

InitStore ==
    /\ instruments = {}
    /\ holdings = {}
    /\ transactions = <<>>
    /\ snapshots = {}
    /\ \E df \in TickData, unique \in OhlcvDataUnique : calls = <<Store(df, unique)>>

Build ==
    /\ calls[1].builds < MaxBuilds
    /\ \E product_code \in Products, target_date \in BuildDates :
           calls' = <<[calls[1] EXCEPT
                         !.ohlcv_data = build_ohlcv_for_date(@, calls[1].tick_data, product_code,
                                                             target_date, calls[1].unique),
                         !.before = calls[1].ohlcv_data,
                         !.target = <<product_code, target_date>>,
                         !.repeat = calls[1].target = <<product_code, target_date>>,
                         !.builds = @ + 1]>>
    /\ Tables0

SpecStore == InitStore /\ [][Build]_vars

----------------------------------------------------------------------------
(* Vocabulary of the properties *)

last == calls[1]

Tables == <<instruments, holdings, transactions>>

Rows(hs, instrument_id) == {h \in hs : h.instrument_id = instrument_id}

IsComplete(req) == required_fields \subseteq req.fields

Malformed(req) ==
    \/ ~IsComplete(req)
    \/ Upper(req.side) \notin {"BUY", "SELL"}
    \/ ~(req.quantity > 0)
    \/ req.price < 0

ValidLedger ==
    \A i \in 1..Len(transactions) :
        /\ transactions[i].side \in {"BUY", "SELL"}
        /\ transactions[i].quantity > 0
        /\ transactions[i].price >= 0

Signed(t) ==
    CASE t.side = "BUY" -> t.quantity
      [] t.side = "SELL" -> -t.quantity
      [] OTHER -> 0

RECURSIVE SignedSum(_, _)
SignedSum(txs, instrument_id) ==
    IF txs = <<>> THEN 0
    ELSE (IF Head(txs).instrument_id = instrument_id THEN Signed(Head(txs)) ELSE 0)
         + SignedSum(Tail(txs), instrument_id)

(* The weighted-average projection of lines 158-195 folded over a ledger   *)
(* with nothing stored in between: the average cost is kept as the exact    *)
(* quotient cost[1] / cost[2].                                              *)
NoPosition == [present |-> FALSE, quantity |-> 0, cost |-> <<0, 1>>, current_price |-> 0]

Project(p, t) ==
    IF ~p.present
    THEN IF t.side = "SELL" THEN p
         ELSE [present |-> TRUE, quantity |-> t.quantity, cost |-> <<t.price, 1>>,
               current_price |-> t.price]
    ELSE IF t.side = "BUY"
    THEN LET new_qty == p.quantity + t.quantity
         IN  [present |-> TRUE, quantity |-> new_qty,
              cost |-> <<p.quantity * p.cost[1] + t.quantity * t.price * p.cost[2],
                         p.cost[2] * new_qty>>,
              current_price |-> t.price]
    ELSE IF p.quantity = t.quantity THEN NoPosition
    ELSE [p EXCEPT !.quantity = p.quantity - t.quantity, !.current_price = t.price]

RECURSIVE Projection(_, _, _)
Projection(p, txs, instrument_id) ==
    IF txs = <<>> THEN p
    ELSE Projection(IF Head(txs).instrument_id = instrument_id
                    THEN Project(p, Head(txs)) ELSE p,
                    Tail(txs), instrument_id)

IsTradeCall(c) == "msg" \in DOMAIN c

IsUpdateCall(c) == "data" \in DOMAIN c

IsSnapshotCall(c) == {"req", "message"} \subseteq DOMAIN c

IsHistoryCall(c) == {"req", "body"} \subseteq DOMAIN c

Stored(date) == {s \in snapshots : s.snapshot_date = date}

Entries(txs, instrument_id) ==
    SelectSeq(txs, LAMBDA t : t.instrument_id = instrument_id)

----------------------------------------------------------------------------
(* Properties of calls run one at a time (Spec).  In a step of Spec the     *)
(* call made is calls'[1]; the unprimed tables are the state it found.      *)

(* C1: for every instrument the Holding's quantity is the signed sum of its *)
(* Transactions, and an instrument whose sum is 0 has no Holding row.       *)
HoldingMatchesLedger ==
    \A id \in 1..Len(instruments) :
        LET sum == SignedSum(transactions, id)
        IN  /\ sum = 0 => Rows(holdings, id) = {}
            /\ sum # 0 => Rows(holdings, id) # {}
            /\ \A h \in Rows(holdings, id) : h.quantity = sum

(* C2: a SELL of more than the Holding's quantity is rejected and leaves    *)
(* the ledger and the Holding as they were.                                 *)
OversellRejected ==
    [][LET c == calls'[1]
           id == FindInstrument(instruments, c.req.symbol, c.req.market)
       IN  (/\ IsComplete(c.req) /\ Upper(c.req.side) = "SELL"
            /\ Rows(holdings, id) # {}
            /\ c.req.quantity > FindHolding(holdings, id).quantity)
           => /\ c.status = 400
              /\ c.error = "Not enough quantity to sell"
              /\ UNCHANGED Tables]_vars

OversellWitness ==
    /\ last.status = 400 /\ last.error = "Not enough quantity to sell"
    /\ last.holding \in holdings
    /\ last.req.quantity > last.holding.quantity
    /\ last.req.quantity > 0

(* C3: a SELL for a pair with no Instrument, or for an Instrument with no   *)
(* Holding row, is rejected: no Instrument, Transaction or Holding appears. *)
SellWithoutHoldingRejected ==
    [][LET c == calls'[1]
           id == FindInstrument(instruments, c.req.symbol, c.req.market)
       IN  (/\ IsComplete(c.req) /\ Upper(c.req.side) = "SELL"
            /\ (id = 0 \/ Rows(holdings, id) = {}))
           => /\ c.status = 400
              /\ c.error = IF id = 0 THEN "Cannot sell an instrument you don't own"
                           ELSE "Position not found"
              /\ UNCHANGED Tables]_vars

SellWithoutHoldingWitness ==
    /\ last.status = 400 /\ last.error = "Position not found"
    /\ FindInstrument(instruments, last.req.symbol, last.req.market) # 0
    /\ Rows(holdings, FindInstrument(instruments, last.req.symbol, last.req.market)) = {}

(* C4: a call either reports success with its Transaction appended, or      *)
(* reports an error with the tables as they were.                           *)
AllOrNothing ==
    [][LET c == calls'[1]
       IN  \/ /\ c.status = 200
              /\ transactions' = Append(transactions,
                     Transaction(c.instrument_id, Upper(c.req.side),
                                 c.req.quantity, c.req.price))
           \/ /\ c.status # 200
              /\ UNCHANGED Tables]_vars

(* C5: a request with a missing field, a side other than BUY or SELL, a     *)
(* quantity not > 0 or a price < 0 changes no table.                        *)
MalformedRejected ==
    [][Malformed(calls'[1].req) => UNCHANGED Tables]_vars

(* C7: a SELL that leaves a Holding leaves its average_cost as it was, and  *)
(* the average_cost of a Holding changes only in a BUY.                     *)
SellKeepsAverageCost ==
    [][LET c == calls'[1]
           id == FindInstrument(instruments, c.req.symbol, c.req.market)
       IN  /\ (/\ c.status = 200 /\ Upper(c.req.side) = "SELL"
               /\ Rows(holdings', id) # {})
              => /\ Rows(holdings, id) # {}
                 /\ \A g \in Rows(holdings', id) :
                        g.average_cost = FindHolding(holdings, id).average_cost
           /\ \A h \in holdings, g \in holdings' :
                  (h.instrument_id = g.instrument_id /\ h.average_cost # g.average_cost)
                  => Upper(c.req.side) = "BUY"]_vars

SellKeepsAverageCostWitness ==
    /\ last.status = 200 /\ Upper(last.req.side) = "SELL"
    /\ last.holding.quantity > last.req.quantity /\ last.req.quantity > 0
    /\ last.req.price # last.holding.average_cost
    /\ \E g \in Rows(holdings, last.instrument_id) :
           g.quantity > 0 /\ g.average_cost = last.holding.average_cost

(* C8, as claimed: a BUY against a Holding gives quantity current_qty +     *)
(* trade_qty and average_cost exactly the weighted average (here for a      *)
(* ledger of well-formed trades only).                                      *)
BuyAveragesExactly ==
    [][LET c == calls'[1]
           id == FindInstrument(instruments, c.req.symbol, c.req.market)
           before == FindHolding(holdings, id)
           new_qty == before.quantity + c.req.quantity
           total_cost == before.quantity * before.average_cost
                         + c.req.quantity * c.req.price
       IN  (/\ c.status = 200 /\ Upper(c.req.side) = "BUY" /\ Rows(holdings, id) # {}
            /\ ValidLedger')
           => \A g \in Rows(holdings', id) :
                  /\ g.quantity = new_qty
                  /\ g.average_cost * new_qty = total_cost]_vars

(* C8, amended: a BUY against a Holding gives quantity current_qty +        *)
(* trade_qty and, as average_cost, the weighted average rounded to the      *)
(* nearest value of the Numeric(15,4) column (exact when it is on the grid).*)
BuyAveragesToNearest ==
    [][LET c == calls'[1]
           id == FindInstrument(instruments, c.req.symbol, c.req.market)
           before == FindHolding(holdings, id)
           new_qty == before.quantity + c.req.quantity
           total_cost == before.quantity * before.average_cost
                         + c.req.quantity * c.req.price
       IN  (/\ c.status = 200 /\ Upper(c.req.side) = "BUY" /\ Rows(holdings, id) # {})
           => /\ Rows(holdings', id) # {}
              /\ \A g \in Rows(holdings', id) :
                     /\ g.quantity = new_qty
                     /\ 2 * Abs(g.average_cost * new_qty - total_cost) <= Abs(new_qty)]_vars

(* BUY 1 @ 1 then BUY 1 @ 3: quantity 2, average_cost 2 *)
BuyAveragesWitness ==
    /\ last.status = 200 /\ last.req.side = "BUY"
    /\ last.req.quantity = 1 /\ last.req.price = 3
    /\ last.holding = PortfolioHolding(last.instrument_id, 1, 1, 1)
    /\ PortfolioHolding(last.instrument_id, 2, 2, 3) \in holdings

(* C9: a BUY for a pair with no Holding creates the Holding (trade_qty,     *)
(* trade_price, trade_price), which is what the BUY rule gives from (0, 0). *)
OpeningBuy ==
    [][LET c == calls'[1]
           id == FindInstrument(instruments, c.req.symbol, c.req.market)
           new_id == FindInstrument(instruments', c.req.symbol, c.req.market)
           opened == PortfolioHolding(new_id, c.req.quantity, c.req.price, c.req.price)
       IN  (/\ IsComplete(c.req) /\ Upper(c.req.side) = "BUY"
            /\ (id = 0 \/ Rows(holdings, id) = {}))
           => /\ c.status = 200
              /\ new_id # 0
              /\ Rows(holdings', new_id) = {opened}
              /\ c.req.quantity # 0 =>
                     {x.row : x \in AddToPosition(c, PortfolioHolding(new_id, 0, 0, 0))}
                     = {opened}]_vars

OpeningBuyWitness ==
    /\ last.status = 200 /\ Upper(last.req.side) = "BUY"
    /\ last.holding = NoHolding
    /\ last.req.quantity > 0 /\ last.req.price > 0
    /\ PortfolioHolding(last.instrument_id, last.req.quantity,
                        last.req.price, last.req.price) \in holdings

(* C10: a SELL of the whole quantity held removes the Holding row and its   *)
(* entry in the listing, and the next SELL on the pair is rejected with     *)
(* "Position not found".                                                    *)
FullSellDeletes ==
    [][LET c == calls'[1]
           id == FindInstrument(instruments, c.req.symbol, c.req.market)
       IN  /\ (/\ IsComplete(c.req) /\ Upper(c.req.side) = "SELL"
               /\ Rows(holdings, id) # {}
               /\ c.req.quantity = FindHolding(holdings, id).quantity)
              => /\ c.status = 200
                 /\ Rows(holdings', id) = {}
                 /\ ~\E e \in get_assets_overview' :
                        e.symbol = c.req.symbol /\ e.market = c.req.market
           /\ (/\ calls[1].status = 200 /\ calls[1].op = "delete"
               /\ IsComplete(c.req) /\ Upper(c.req.side) = "SELL"
               /\ c.req.symbol = calls[1].req.symbol
               /\ c.req.market = calls[1].req.market)
              => /\ c.status = 400
                 /\ c.error = "Position not found"
                 /\ UNCHANGED Tables]_vars

FullSellWitness ==
    /\ last.status = 200 /\ Upper(last.req.side) = "SELL"
    /\ last.req.quantity > 0
    /\ last.holding.quantity = last.req.quantity
    /\ Rows(holdings, last.instrument_id) = {}
    /\ Len(instruments) >= last.instrument_id

(* C11: every stored Holding has quantity > 0.                              *)
HoldingsPositive ==
    \A h \in holdings : h.quantity > 0

(* C12: after an accepted call that leaves a Holding in place, whether BUY  *)
(* or SELL, the Holding's current_price is the price of that call.          *)
CurrentPriceIsTradePrice ==
    last.status = 200
    => \A g \in Rows(holdings, last.instrument_id) :
           g.current_price = last.req.price

(* BUY 2 @ 2 then SELL 1 @ 1: quantity 1, average_cost 2, current_price 1 *)
CurrentPriceWitness ==
    /\ last.status = 200 /\ Upper(last.req.side) = "SELL"
    /\ last.holding.quantity > last.req.quantity /\ last.req.quantity > 0
    /\ last.req.price > 0 /\ last.holding.current_price # last.req.price
    /\ Rows(holdings, last.instrument_id)
         = {PortfolioHolding(last.instrument_id,
                             last.holding.quantity - last.req.quantity,
                             last.holding.average_cost, last.req.price)}

----------------------------------------------------------------------------
(* Properties of well-formed calls run one at a time (SpecReplay) *)

(* C13: folding the projection over the whole ledger from the empty state   *)
(* gives the Holding that the calls left in the table: the same absence or  *)
(* the same quantity and current_price, and as average_cost the value the   *)
(* column stores for the folded quotient.                                   *)
ReplayDeterminism ==
    \A id \in 1..Len(instruments) :
        LET p == Projection(NoPosition, transactions, id)
        IN  IF ~p.present THEN Rows(holdings, id) = {}
            ELSE /\ Rows(holdings, id) # {}
                 /\ \A h \in Rows(holdings, id) :
                        /\ h.quantity = p.quantity
                        /\ h.current_price = p.current_price
                        /\ h.average_cost \in Numeric(p.cost[1], p.cost[2])

----------------------------------------------------------------------------
(* Properties of every operation, one call at a time (SpecOps) *)

(* C14: across execute_trade, update_assets, create_snapshot and the reads, *)
(* the ledger after a call is the ledger before it, or that ledger with one *)
(* Transaction appended.                                                    *)
LedgerAppendOnly ==
    [][\/ transactions' = transactions
       \/ /\ Len(transactions') = Len(transactions) + 1
          /\ SubSeq(transactions', 1, Len(transactions)) = transactions]_vars

(* update_assets has removed every Holding; the ledger keeps its entries *)
LedgerAppendOnlyWitness ==
    /\ IsUpdateCall(last) /\ last.status = 200 /\ last.deleted # {}
    /\ holdings = {}
    /\ Len(transactions) >= 2
    /\ snapshots # {}

----------------------------------------------------------------------------
(* Properties of the snapshot store (SpecSnapshots, SpecSnapshotsConc) *)

(* C15: create_snapshot for a date that has a stored snapshot answers 409   *)
(* "Snapshot already exists" and leaves the stored snapshot as it was.      *)
SecondSnapshotRejected ==
    [][LET c == calls'[1]
       IN  (/\ IsSnapshotCall(c)
            /\ "snapshot_date" \in c.req.fields
            /\ Stored(c.req.snapshot_date) # {})
           => /\ c.status = 409
              /\ c.message = "Snapshot already exists"
              /\ snapshots' = snapshots]_vars

SecondSnapshotWitness ==
    /\ IsSnapshotCall(last) /\ last.status = 409
    /\ \E s \in Stored(last.req.snapshot_date) :
           /\ s.total_net_worth # last.req.total_net_worth
           /\ s.equity_us # Get(last.req, "equity_us", 0)

(* C16: when two create_snapshot calls for the same date have both          *)
(* answered, one snapshot is stored for the date, one call has answered 201 *)
(* and the other 409 "Snapshot already exists".                             *)
SnapshotCheckAndInsertAtomic ==
    (/\ \A w \in Workers : IsSnapshotCall(calls[w]) /\ calls[w].pc = "done"
     /\ \A w \in Workers : {"snapshot_date", "total_net_worth"} \subseteq calls[w].req.fields
     /\ calls[1].req.snapshot_date = calls[2].req.snapshot_date)
    => /\ Cardinality(Stored(calls[1].req.snapshot_date)) = 1
       /\ \E w \in Workers :
              /\ calls[w].status = 201
              /\ calls[3 - w].status = 409
              /\ calls[3 - w].message = "Snapshot already exists"

(* C20: get_assets_history returns the stored snapshots with start_date <=  *)
(* date (when given) and date <= end_date (when given), each once, in       *)
(* strictly ascending date order.                                           *)
HistoryInRangeAscending ==
    IsHistoryCall(last)
    => LET body == last.body
           InRange(date) ==
               /\ last.req.start_date # 0 => last.req.start_date <= date
               /\ last.req.end_date # 0 => date <= last.req.end_date
       IN  /\ {body[i].snapshot_date : i \in 1..Len(body)}
                = {s.snapshot_date : s \in {t \in snapshots : InRange(t.snapshot_date)}}
           /\ \A i \in 1..Len(body) :
                  \E s \in Stored(body[i].snapshot_date) :
                      /\ body[i].total_net_worth = s.total_net_worth
                      /\ body[i].equity_us = s.equity_us
                      /\ body[i].cash_balance = s.cash_balance
           /\ \A i \in 1..Len(body), j \in 1..Len(body) :
                  i < j => body[i].snapshot_date < body[j].snapshot_date

(* snapshots stored for days 1, 2 and 3, history asked from 2 to 3 *)
HistoryWitness ==
    /\ IsHistoryCall(last)
    /\ last.req.start_date = 2 /\ last.req.end_date = 3
    /\ {s.snapshot_date : s \in snapshots} = {1, 2, 3}
    /\ Len(last.body) = 2
    /\ last.body[1].snapshot_date = 2 /\ last.body[2].snapshot_date = 3

----------------------------------------------------------------------------
(* Properties of two calls at a time (SpecConc) *)

SerialResults(db, r1, r2) ==
    UNION {{b.db : b \in execute_trade(a.db, r2)} : a \in execute_trade(db, r1)}

(* C6: when two well-formed calls on the same pair have both reported       *)
(* success, the tables are those of running the two calls one after the     *)
(* other in some order.                                                     *)
Serialized ==
    (/\ \A w \in Workers : calls[w].pc = "done" /\ calls[w].status = 200
     /\ ~Malformed(calls[1].req) /\ ~Malformed(calls[2].req)
     /\ calls[1].req.symbol = calls[2].req.symbol
     /\ calls[1].req.market = calls[2].req.market)
    => \E db \in SeedDatabases :
           Committed \in SerialResults(db, calls[1].req, calls[2].req)
                         \cup SerialResults(db, calls[2].req, calls[1].req)

(* C19: two calls on different Instruments that both existed: each call    *)
(* answers as it does when run alone on the tables the two started from,    *)
(* and leaves its Instrument's Holding and ledger entries as it does alone. *)
Independent ==
    (/\ \A w \in Workers :
            /\ calls[w].pc = "done"
            /\ calls[w].instrument_id # 0 /\ ~calls[w].new_instrument
     /\ calls[1].instrument_id # calls[2].instrument_id)
    => \E db \in SeedDatabases :
           \A w \in Workers :
               LET c == calls[w]
                   id == c.instrument_id
               IN  /\ FindInstrument(db.instruments, c.req.symbol, c.req.market) = id
                   /\ \E out \in execute_trade(db, c.req) :
                          /\ out.call.status = c.status
                          /\ out.call.error = c.error
                          /\ Rows(out.db.holdings, id) = Rows(holdings, id)
                          /\ Entries(out.db.transactions, id) = Entries(transactions, id)

(* holdings TSM/US 2 @ 2 and TSM/TW 1 @ 1; a BUY on one and a SELL on the   *)
(* other, interleaved, both accepted                                        *)
IndependentWitness ==
    /\ \A w \in Workers : calls[w].pc = "done" /\ calls[w].status = 200
    /\ calls[1].instrument_id = 1 /\ calls[2].instrument_id = 2
    /\ ~calls[1].new_instrument /\ ~calls[2].new_instrument
    /\ calls[1].op = "update" /\ calls[2].op = "delete"
    /\ Len(transactions) = 4
    /\ transactions[3].instrument_id = 2

----------------------------------------------------------------------------
(* Properties of execute_trade and update_assets calls at a time (SpecMixed) *)

(* C17: no two Instruments have the same (symbol, market), and an accepted  *)
(* call refers to the one Instrument of each pair it names.                 *)
InstrumentsUnique ==
    /\ \A i \in 1..Len(instruments), j \in 1..Len(instruments) :
           instruments[i] = instruments[j] => i = j
    /\ \A w \in Workers :
           LET c == calls[w]
           IN  /\ (IsTradeCall(c) /\ c.status = 200)
                  => /\ c.instrument_id \in 1..Len(instruments)
                     /\ instruments[c.instrument_id]
                          = Instrument(c.req.symbol, c.req.market)
               /\ (IsUpdateCall(c) /\ c.status = 200)
                  => \A pair \in c.processed :
                         Cardinality({i \in 1..Len(instruments) :
                                         instruments[i] = pair}) = 1

(* two first BUYs of one unknown pair interleaved: one Instrument, one 500 *)
InstrumentsUniqueWitness ==
    /\ \A w \in Workers :
           /\ IsTradeCall(calls[w]) /\ calls[w].pc = "done"
           /\ calls[w].new_instrument
           /\ calls[w].req.symbol = "TSM" /\ calls[w].req.market = "US"
    /\ calls[1].status = 200
    /\ calls[2].error = "IntegrityError uq_instrument"
    /\ instruments = <<Instrument("TSM", "US")>>

(* C18: each Instrument has at most one Holding row. *)
OneHoldingPerInstrument ==
    \A h \in holdings, g \in holdings :
        h.instrument_id = g.instrument_id => h = g

(* a BUY and an update_assets both opening the position of one Instrument: *)
(* the later commit fails on the unique instrument_id                       *)
OneHoldingWitness ==
    /\ IsTradeCall(calls[1]) /\ calls[1].pc = "done"
    /\ calls[1].op = "insert" /\ ~calls[1].new_instrument
    /\ calls[1].error = "IntegrityError instrument_id"
    /\ IsUpdateCall(calls[2]) /\ calls[2].status = 200
    /\ Cardinality(Rows(holdings, calls[1].instrument_id)) = 1

----------------------------------------------------------------------------
(* Properties of the analytics engine.  run is the one run of a behaviour; *)
(* the trades, orders, bars and daily returns it has simulated are what    *)
(* the figures are compared with.                                          *)

run == calls[1]

Done == IsRun(run) /\ run.pc = "done"

ClosedTrades == SelectSeq(run.trades, LAMBDA t : t.status = "Closed")

Wins == SelectSeq(ClosedTrades, LAMBDA t : ~Less(t.pnlcomm, Float(0)))

Losses == SelectSeq(ClosedTrades, LAMBDA t : Less(t.pnlcomm, Float(0)))

NetOf(ts) == Sum([i \in DOMAIN ts |-> ts[i].pnlcomm])

AverageOf(ts) == IF Len(ts) = 0 THEN Float(0) ELSE Over(NetOf(ts), Float(Len(ts)))

(* C21: a run without a closed trade can be reported, and its report has    *)
(* total_trades 0, win rate 0, average win 0, average loss 0, largest      *)
(* losing trade 0, risk/reward +infinity, profit factor +infinity,         *)
(* expectancy 0 and both streaks 0.                                        *)
NoClosedTradesReport ==
    IsRun(run) /\ Len(ClosedTrades) = 0 =>
        /\ run.pc = "run" => Representable(run) /\ run_strategy(run) # {}
        /\ run.pc = "done" =>
             /\ run.metrics_export.total_trades = 0
             /\ run.metrics_export.win_rate_pct = Float(0)
             /\ run.metrics_export.average_win = Float(0)
             /\ run.metrics_export.average_loss = Float(0)
             /\ run.metrics_export.largest_losing_trade = Float(0)
             /\ run.metrics_export.risk_reward_ratio = inf
             /\ run.metrics_export.profit_factor = inf
             /\ run.metrics_export.expectancy = Float(0)
             /\ run.metrics_export.max_consecutive_wins = 0
             /\ run.metrics_export.max_consecutive_losses = 0

NoClosedTradesWitness ==
    /\ Done
    /\ Len(run.trades) = 2
    /\ Len(ClosedTrades) = 0

(* C22: with closed trades, win_rate = wins / closed * 100, risk/reward =   *)
(* avg_win / avg_loss and profit factor = gross_profit / gross_loss, each  *)
(* +infinity when its divisor is 0, and expectancy = win_rate/100 * avg_win *)
(* - (1 - win_rate/100) * avg_loss, losses counted as magnitudes; 10 closed *)
(* trades with 6 wins of 6000 and 4 losses of 2000 report 60, 3 and 400.    *)
TradeStatisticsFormulas ==
    Done /\ Len(ClosedTrades) > 0 =>
        LET stats == run.figures.stats
            win_rate == Times(Frac(Len(Wins), Len(ClosedTrades)), Float(100))
            avg_win == AverageOf(Wins)
            avg_loss == abs(AverageOf(Losses))
            gross_profit == NetOf(Wins)
            gross_loss == abs(NetOf(Losses))
        IN  /\ stats.win_rate = win_rate
            /\ stats.rr_ratio = IF avg_loss = Float(0) THEN inf ELSE Over(avg_win, avg_loss)
            /\ stats.profit_factor = IF gross_loss = Float(0) THEN inf
                                     ELSE Over(gross_profit, gross_loss)
            /\ stats.expectancy =
                   Minus(Times(Over(win_rate, Float(100)), avg_win),
                         Times(Minus(Float(1), Over(win_rate, Float(100))), avg_loss))
            /\ /\ Len(ClosedTrades) = 10 /\ Len(Wins) = 6
               /\ gross_profit = Float(6000) /\ gross_loss = Float(2000)
               => /\ run.metrics_export.win_rate_pct = Float(60)
                  /\ run.metrics_export.profit_factor = Float(3)
                  /\ run.metrics_export.expectancy = Float(400)

TradeStatisticsWitness ==
    /\ Done
    /\ Len(ClosedTrades) = 10
    /\ Len(Wins) = 6
    /\ NetOf(Wins) = Float(6000)
    /\ NetOf(Losses) = Float(-2000)
    /\ run.metrics_export.expectancy = Float(400)

(* The equity curve: the high-water mark and the decline at bar t *)
RECURSIVE HighWater(_, _)
HighWater(vs, t) == IF t = 1 THEN vs[1] ELSE max(HighWater(vs, t - 1), vs[t])

Decline(vs, t) == Minus(HighWater(vs, t), vs[t])

DeclinePct(vs, t) == Over(Times(Float(100), Decline(vs, t)), HighWater(vs, t))

Largest(xs) == CHOOSE x \in xs : \A y \in xs : ~Less(x, y)

WholeDays(dates) == IF Len(dates) > 1 THEN (dates[Len(dates)] - dates[1]) \div 2 ELSE 0

(* C23: net profit is last equity - initial cash and the total return is    *)
(* that over the initial cash, times 100; CAGR is 0 with at most one bar or *)
(* a span of less than a day, and otherwise, with years = whole days of the *)
(* span / 365.25, it is the rate c with (1 + c/100) ** years = last equity  *)
(* / initial cash.                                                          *)
GrowthFormulas ==
    Done =>
        LET last_equity == IF run.values = <<>> THEN run.cash
                           ELSE run.values[Len(run.values)]
            days == WholeDays(run.dates)
            years == Frac(days * 100, 36525)
            rate == Plus(Float(1), Over(run.figures.cagr, Float(100)))
        IN  /\ run.figures.net_profit = Minus(last_equity, run.cash)
            /\ run.figures.total_return_pct =
                   Times(Over(Minus(last_equity, run.cash), run.cash), Float(100))
            /\ Len(run.dates) <= 1 \/ days <= 0 => run.figures.cagr = Float(0)
            /\ Len(run.dates) > 1 /\ days > 0 =>
                   Pow(rate, years[1]) = Pow(Over(last_equity, run.cash), years[2])

GrowthWitness ==
    /\ Done
    /\ WholeDays(run.dates) = 1461
    /\ run.value = Float(1600000)
    /\ run.cash = Float(100000)
    /\ run.metrics_export.cagr_pct = Float(100)

(* C25: the Calmar ratio is CAGR / max drawdown % when that drawdown is     *)
(* above 0, and +infinity otherwise.                                        *)
CalmarFormula ==
    Done =>
        run.figures.calmar =
            IF Less(Float(0), run.figures.mdd_pct)
            THEN Over(run.figures.cagr, run.figures.mdd_pct) ELSE inf

CalmarWitness ==
    /\ Done
    /\ run.figures.cagr = Float(-50)
    /\ run.figures.mdd_pct = Frac(375, 4)
    /\ run.figures.calmar = Frac(-8, 15)

(* C26, as stated: the maximum drawdown is one decline from the high-water  *)
(* mark, the largest, given both as a percentage of its peak and in money.  *)
DrawdownOneDecline ==
    Done /\ run.values # <<>> =>
        \E t \in DOMAIN run.values :
            /\ run.figures.mdd_money = Decline(run.values, t)
            /\ run.figures.mdd_pct = DeclinePct(run.values, t)
            /\ \/ \A u \in DOMAIN run.values :
                      ~Less(Decline(run.values, t), Decline(run.values, u))
               \/ \A u \in DOMAIN run.values :
                      ~Less(DeclinePct(run.values, t), DeclinePct(run.values, u))

(* C26, amended: the maximum drawdown is two maxima over the bars, the      *)
(* largest decline from the running high-water mark in money and the        *)
(* largest as a percentage of the mark, which need not be the same decline; *)
(* the curve [100000, 120000, 90000, 130000] reports 25% and 30000.          *)
DrawdownMaxima ==
    Done /\ run.values # <<>> =>
        /\ run.figures.mdd_money =
               Largest({Decline(run.values, t) : t \in DOMAIN run.values})
        /\ run.figures.mdd_pct =
               Largest({DeclinePct(run.values, t) : t \in DOMAIN run.values})
        /\ run.values = <<Float(100000), Float(120000), Float(90000), Float(130000)>> =>
               /\ run.metrics_export.mdd_pct = Float(25)
               /\ run.metrics_export.mdd_money = Float(30000)

DrawdownWitness ==
    /\ Done
    /\ run.values = <<Float(100000), Float(120000), Float(90000), Float(130000)>>
    /\ run.metrics_export.mdd_pct = Float(25)

(* C24: the Sortino ratio of fewer than 2 returns is 0; of returns none of  *)
(* which is below the risk-free rate, +infinity; otherwise it is            *)
(* (mean * 252 - rate) / (sqrt(mean of the squared downside returns) *      *)
(* sqrt(252)), and 0 when that divisor is 0.                                *)
SortinoCases ==
    IsRun(run) =>
        LET xs == run.sortino.returns
            rate == run.sortino.risk_free_rate
            result == run.sortino.result
            below == SelectSeq(xs, LAMBDA x : Less(x, rate))
            excess == Minus(Times(Over(Sum(xs), Float(Len(xs))), Float(252)), rate)
            divisor2 == Times(Over(Sum([i \in DOMAIN below |-> Times(below[i], below[i])]),
                                   Float(Len(below))), Float(252))
        IN  IF Len(xs) < 2 THEN result = Root(0, Float(0))
            ELSE IF Len(below) = 0 THEN result = Root(1, inf)
            ELSE IF divisor2 = Float(0) THEN result = Root(0, Float(0))
            ELSE /\ result.sign = Sign(excess)
                 /\ Times(result.square, divisor2) = Times(excess, excess)

SortinoWitness ==
    /\ IsRun(run)
    /\ run.sortino.returns = <<Frac(1, 100), Frac(-1, 100), Frac(1, 100)>>
    /\ run.sortino.risk_free_rate = Float(0)
    /\ run.sortino.result = Root(1, Float(28))

(* C29: total_commission starts at 0; an order notification with status     *)
(* Completed adds its executed commission and any other leaves the total,   *)
(* which never decreases; the report gives total_commission / |net_profit|  *)
(* * 100, or 0 when the net profit is 0.                                    *)
FrictionSteps ==
    /\ IsRun(run) => run.commissions = Float(0)
    /\ [][/\ Len(run'.orders) = Len(run.orders) + 1 =>
                LET order == run'.orders[Len(run'.orders)]
                IN  run'.commissions =
                        IF order.status = "Completed"
                        THEN Plus(run.commissions, order.comm) ELSE run.commissions
          /\ Len(run'.orders) = Len(run.orders) => run'.commissions = run.commissions
          /\ ~Less(run'.commissions, run.commissions)
          /\ run'.pc = "done" =>
                LET net_profit == Minus(run.value, run.cash)
                IN  /\ run'.figures.commissions = run.commissions
                    /\ run'.figures.comm_to_net_profit =
                           IF net_profit = Float(0) THEN Float(0)
                           ELSE Times(Over(run.commissions, abs(net_profit)), Float(100))]_vars

FrictionWitness ==
    /\ Done
    /\ \E i \in DOMAIN run.orders : run.orders[i] = Order("Partial", Float(53))
    /\ run.metrics_export.total_commission = Float(159)
    /\ run.metrics_export.net_profit = Float(-10000)
    /\ run.metrics_export.commission_to_net_profit_pct = Frac(159, 100)

(* The points of a trade, not rounded *)
PointsOf(t) ==
    IF run.mult = Float(0) THEN Float(0)
    ELSE Over(t.pnl, Times(Float(Abs(t.size)), run.mult))

(* C27: the reported total_net_points is the sum, over every trade once,    *)
(* open or closed, of pnl / (|size| * multiplier), the points of a trade    *)
(* being 0 when the multiplier is 0.                                        *)
TotalNetPoints ==
    Done =>
        /\ DOMAIN run.trade_list = DOMAIN run.trades
        /\ run.metrics_export.total_net_points
               \in round(Sum([i \in DOMAIN run.trades |-> PointsOf(run.trades[i])]))

(* C28: no figure is rounded before it is used: the points that are summed  *)
(* are the unrounded points of the trades, and every reported figure is    *)
(* round(x, 2) of the figure computed from unrounded inputs.                *)
RoundedOnlyInReport ==
    Done =>
        /\ \A i \in DOMAIN run.trade_list : run.trade_list[i].points = PointsOf(run.trades[i])
        /\ run.metrics_export.total_net_points
               \in round(Sum([i \in DOMAIN run.trades |-> PointsOf(run.trades[i])]))
        /\ run.metrics_export.expectancy \in round(run.figures.stats.expectancy)
        /\ run.metrics_export.win_rate_pct \in round(run.figures.stats.win_rate)
        /\ run.metrics_export.average_win \in round(run.figures.stats.avg_win)
        /\ run.metrics_export.average_loss \in round(run.figures.stats.avg_loss)
        /\ run.metrics_export.risk_reward_ratio \in round(run.figures.stats.rr_ratio)
        /\ run.metrics_export.profit_factor \in round(run.figures.stats.profit_factor)
        /\ run.metrics_export.net_profit \in round(run.figures.net_profit)
        /\ run.metrics_export.total_return_pct \in round(run.figures.total_return_pct)
        /\ run.metrics_export.cagr_pct \in round(run.figures.cagr)
        /\ run.metrics_export.calmar_ratio \in round(run.figures.calmar)

----------------------------------------------------------------------------
(* Properties of update_assets, one call at a time (SpecOps) *)

Named(items) == {i \in DOMAIN items : items[i].symbol # "" /\ items[i].market # ""}

Names(items, i, h) ==
    /\ h.instrument_id \in DOMAIN instruments
    /\ instruments[h.instrument_id] = Instrument(items[i].symbol, items[i].market)

(* C30: after a successful update_assets the Holdings are those of the      *)
(* instruments named by the items that carry a symbol and a market, one    *)
(* each, with the quantity and the current price of the (last) item naming *)
(* it; every other Holding is gone, and an empty list leaves none.         *)
AssetsReplaced ==
    IsUpdateCall(last) /\ last.status = 200 =>
        LET items == last.data.items
        IN  /\ \A h \in holdings : \E i \in Named(items) : Names(items, i, h)
            /\ \A i \in Named(items) :
                   /\ Cardinality({h \in holdings : Names(items, i, h)}) = 1
                   /\ \A h \in holdings :
                          /\ Names(items, i, h)
                          /\ \A j \in Named(items) : Names(items, j, h) => j <= i
                          => /\ h.quantity = items[i].quantity
                             /\ h.current_price = items[i].current_price
            /\ items = <<>> => holdings = {}

AssetsReplacedWitness ==
    /\ IsUpdateCall(last)
    /\ last.status = 200
    /\ last.data.items = <<Item("TSM", "US", 1, 3, TRUE)>>
    /\ last.deleted # {}
    /\ \E h \in holdings : h.quantity = 1 /\ h.average_cost = 1 /\ h.current_price = 3

FirstNaming(items, instrument) ==
    CHOOSE i \in Named(items) :
        /\ Instrument(items[i].symbol, items[i].market) = instrument
        /\ \A j \in Named(items) :
               Instrument(items[j].symbol, items[j].market) = instrument => i <= j

(* C31: a call of update_assets leaves the ledger as it was; a Holding that *)
(* was stored before the call keeps its average_cost, and a Holding the     *)
(* call has created has the price of the item that created it.              *)
AssetsKeepLedgerAndCost ==
    [][IsUpdateCall(last') =>
          /\ transactions' = transactions
          /\ \A h \in holdings' :
                 IF Rows(holdings, h.instrument_id) # {}
                 THEN \A g \in Rows(holdings, h.instrument_id) :
                          h.average_cost = g.average_cost
                 ELSE h.average_cost =
                          last'.data.items[FirstNaming(last'.data.items,
                              instruments'[h.instrument_id])].current_price]_vars

AssetsKeepCostWitness ==
    /\ IsUpdateCall(last)
    /\ last.status = 200
    /\ Len(transactions) = 1
    /\ \E h \in holdings : h.average_cost = 1 /\ h.current_price = 3 /\ h.quantity = 1
    /\ \E h \in holdings : h.average_cost = 2 /\ h.current_price = 2 /\ h.quantity = 2

(* C32: a call of update_assets that reports an error leaves instruments,   *)
(* holdings and transactions as they were, whatever its earlier items did.  *)
AssetsAllOrNothing ==
    [][IsUpdateCall(last') /\ last'.status # 200 =>
          UNCHANGED <<instruments, holdings, transactions>>]_vars

AssetsAllOrNothingWitness ==
    /\ IsUpdateCall(last)
    /\ last.status = 500
    /\ last.error = "ValueError"
    /\ last.k = 2
    /\ last.new_instruments # <<>>
    /\ last.writes # {}
    /\ instruments = <<>>
    /\ holdings = {}

----------------------------------------------------------------------------
(* Properties of the routes behind require_auth (SpecAuth) *)

(* C33: on every route but '/', a request without the X-API-KEY header or   *)
(* with a header other than the configured key is answered 401 and its     *)
(* handler does not run, whatever API_KEY is, unset included.               *)
AuthRequired ==
    IsAuthCall(last) /\ last.route # "/" =>
        /\ last.ran => last.header # {} /\ last.header = last.api_key
        /\ last.header = {} \/ last.header # last.api_key =>
               ~last.ran /\ last.status = 401

----------------------------------------------------------------------------
(* Properties of the breakout strategies *)

Time == Session[last.slot]

PendingEntries == {i \in DOMAIN last.pending : last.pending[i].exectype = "Stop"}

PendingCloses == {i \in DOMAIN last.pending : last.pending[i].exectype = "Market"
                                        /\ last.pending[i].size = -last.position}

(* C34: both strategies submit at most one sell stop entry order per        *)
(* calendar day, only on a bar at or before 09:30 on which the amplitude,   *)
(* volume and lower-pivot conditions all hold, and at most one short entry  *)
(* fill occurs per calendar day.                                            *)
OneEntryPerDay ==
    IsStrategy(last) =>
        /\ last.entries <= 1
        /\ "sell" \in last.events =>
               Time <= time_930 /\ amp_ok(last) /\ vol_ok(last) /\ pivot_ok(last)
        /\ last.short_fills <= 1

(* C35: on every bar at or after exit_time no entry order is left pending,  *)
(* a close order is submitted if a short is open and no entry order is      *)
(* submitted; no short opened on an earlier day is open at a day's first    *)
(* bar.                                                                     *)
ForcedExit ==
    IsStrategy(last) /\ last.day > 0 =>
        /\ Time >= exit_time =>
               /\ PendingEntries = {}
               /\ last.position < 0 => PendingCloses # {}
               /\ "sell" \notin last.events
        /\ last.slot = 1 /\ last.position < 0 => last.opened_day = last.day

(* C36: whenever a short is open stop_price is the fill price of the sell   *)
(* order that opened it plus stop_loss_pts, and on a bar before exit_time   *)
(* whose high or close is >= stop_price the strategy submits a close order  *)
(* and runs no entry logic.                                                 *)
StopLoss ==
    IsStrategy(last) /\ last.position < 0 =>
        /\ last.stop_price = last.opened + stop_loss_pts
        /\ /\ Time < exit_time
           /\ last.bar.high >= last.stop_price \/ last.bar.close >= last.stop_price
           => PendingCloses # {} /\ "close" \in last.events /\ last.events \cap {"sell", "setup"} = {}

(* C37: CombinedMABreakoutStrategy with stake 1 keeps the position in       *)
(* {-1, 0, +1}, and a fill of the short entry order, while long or while    *)
(* flat, leaves exactly one unit short.                                     *)
OneUnit ==
    IsStrategy(last) /\ last.cls = "combined" =>
        /\ last.position \in {-1, 0, 1}
        /\ \A i \in DOMAIN last.fills :
               last.fills[i].exectype = "Stop" => last.fills[i].after = -1

----------------------------------------------------------------------------
(* Properties of the OHLCV builder *)

RowCount(table, row) == Cardinality({i \in DOMAIN table : table[i] = row})

SameRows(a, b) ==
    \A row \in {a[i] : i \in DOMAIN a} \cup {b[i] : i \in DOMAIN b} :
        RowCount(a, row) = RowCount(b, row)

(* C38: a second build_ohlcv_for_date for the same product and date leaves  *)
(* the stored rows of the first, and two builds on an empty table leave at  *)
(* most one row per (product_code, timeframe, timestamp), in all eight      *)
(* timeframes.                                                              *)
BuildIdempotent ==
    IsStore(last) /\ last.repeat =>
        /\ SameRows(last.ohlcv_data, last.before)
        /\ last.builds = 2 =>
               \A i, j \in DOMAIN last.ohlcv_data :
                   Key(last.ohlcv_data[i]) = Key(last.ohlcv_data[j]) => i = j

====
